---- MODULE Spec2Model ----
(***************************************************************************)
(* Model of the gerrit-agent command line client.                          *)
(*                                                                         *)
(*  - TableFormatter._convert_gerrit_diff_to_unified                       *)
(*    (src/src/gerrit_cli/formatters/table.py): the loop over the          *)
(*    sections of a Gerrit diff that produces the context-windowed         *)
(*    unified diff.  Specification SpecDiff.                               *)
(*  - the review command (src/src/gerrit_cli/commands/review.py): the      *)
(*    message and the labels are collected, every inline-comment token is  *)
(*    split at its last '#' and its location part parsed into a line and   *)
(*    an optional range, and the review is sent.  Specification SpecLoc    *)
(*    runs the command on at most one inline-comment token whose location  *)
(*    part ranges over a large set of strings.                             *)
(*                                                                         *)
(* Python strings are modelled as sequences of one-character strings,      *)
(* Python lists as sequences, Python dicts as functions whose DOMAIN is    *)
(* the set of keys.  An Optional value is None or Some(v).                 *)
(***************************************************************************)
EXTENDS Integers, Sequences, FiniteSets, TLC

(***************************************************************************)
(* Bounds of the model.                                                    *)
(***************************************************************************)
MaxSections == 3       \* sections in one diff
MaxAbLen == 5          \* lines in one "ab" (context) section
MaxContext == 2        \* the context argument
MaxLocLen == 3         \* length of a free-form location part
MaxTokens == 2         \* inline-comment tokens of one review command
MaxOptions == 3        \* options of one list_changes or get_change call
MaxParts == 2          \* comma-separated items of one --parts value
MaxCalls == 3          \* calls of the converter by one caller
MaxPathLen == 9        \* characters of a path given to shorten_path

VARIABLES
    content_sections,  \* gerrit_diff["content"], the argument of the converter
    context,           \* the context argument of the converter
    i,                 \* index (0-based, as in enumerate) of the next section
    lines,             \* the local list `lines` of the converter
    pc,                \* position of the converter: "loop", "done", "idle"
    result,            \* the returned string, None before the return
    message,           \* review option -m (Optional string)
    file_text,         \* content of the file given with -f (Optional string)
    code_review,       \* review option --code-review (Optional string)
    verified,          \* review option --verified (Optional string)
    inline_comment,    \* review option --inline-comment: list of (location, message)
    review_message,    \* local of review (Optional string)
    labels,            \* local of review: dict label -> int
    comments,          \* local of review: dict file -> list of CommentInput
    taken,             \* number of inline-comment tokens the loop has taken
    f,                 \* local of review: file part of the last token split
    l_raw,             \* local of review: location part of the last token split
    line,              \* local of review (None while unbound)
    comment_range,     \* local of review (Optional CommentRange)
    rpc,               \* position of review: "start", "loop", "done", "idle"
    exit_code,         \* exit status of the command, None while it runs
    sent,              \* the bodies of the review requests issued
    parts_option,      \* view option --parts (Optional string)
    output_format,     \* view option --format: "table" or "json"
    parts_list,        \* local of get_parts_to_show (None while unbound)
    error,             \* the item named by the ValueError of --parts, or None
    show_parts,        \* local of view: dict part -> bool (<<>> while unbound)
    change,            \* local of view: the ChangeDetail (None while unbound)
    files_data,        \* local of view: Optional list of the file paths
    diffs_data,        \* local of view: Optional list of the paths with a diff
    comments_data,     \* local of view: Optional list of the commented paths
    files,             \* local of get_all_diffs: the file paths, in order
    diffs,             \* local of get_all_diffs: the paths that have a diff
    fetched,           \* number of paths the loop of get_all_diffs has taken
    vpc,               \* position of view: "start", "detail", ..., "done", "idle"
    output,            \* the sections view printed, in order (None before)
    view_exit,         \* exit status of view, None while it runs
    api_call,          \* the GerritClient method called directly, and its options
    api_result,        \* what _make_request gave that call: data or exception
    requests,          \* the HTTP requests GerritClient has issued, in order
    response,          \* what the last request got (None before any request)
    given,             \* the caller's copy of the diff it passed to the converter
    calls,             \* the caller's record of the converter calls that returned
    branch,            \* checkout option -b (Optional string)
    force,             \* checkout flag --force
    no_checkout,       \* checkout flag --no-checkout
    stash,             \* checkout option --stash/--no-stash (Optional bool)
    branches,          \* the local branches of the repository
    HEAD,              \* the branch checked out, None when HEAD is detached
    stashed,           \* number of entries of the stash
    change_info,       \* local change of checkout (None while unbound)
    ref_spec,          \* local of checkout (None while unbound)
    branch_name,       \* local of checkout (None while unbound)
    steps,             \* the calls checkout made, in order, with their outcome
    cpc,               \* position of checkout: "start", ..., "done", "idle"
    checkout_exit,     \* exit status of checkout, None while it runs
    path,              \* argument of shorten_path
    max_length,        \* argument of shorten_path
    shortened          \* what shorten_path gave (None before the call)

diffVars == <<content_sections, context, i, lines, pc, result>>
reviewVars == <<message, file_text, code_review, verified, inline_comment,
                review_message, labels, comments, taken, f, l_raw, line,
                comment_range, rpc, exit_code, sent>>
viewVars == <<parts_option, output_format, parts_list, error, show_parts,
              change, files_data, diffs_data, comments_data, files, diffs,
              fetched, vpc, output, view_exit>>
clientVars == <<api_call, api_result, requests, response>>
callerVars == <<given, calls>>
checkoutVars == <<branch, force, no_checkout, stash, branches, HEAD, stashed,
                  change_info, ref_spec, branch_name, steps, cpc,
                  checkout_exit>>
pathVars == <<path, max_length, shortened>>
vars == <<content_sections, context, i, lines, pc, result,
          message, file_text, code_review, verified, inline_comment,
          review_message, labels, comments, taken, f, l_raw, line,
          comment_range, rpc, exit_code, sent,
          parts_option, output_format, parts_list, error, show_parts,
          change, files_data, diffs_data, comments_data, files, diffs,
          fetched, vpc, output, view_exit,
          api_call, api_result, requests, response, given, calls,
          branch, force, no_checkout, stash, branches, HEAD, stashed,
          change_info, ref_spec, branch_name, steps, cpc, checkout_exit,
          path, max_length, shortened>>

None == <<>>
Some(v) == <<v>>

(***************************************************************************)
(* Python primitives.                                                      *)
(***************************************************************************)
Min(a, b) == IF a < b THEN a ELSE b

\* s[:n] for n >= 0
SliceHead(s, n) == SubSeq(s, 1, Min(n, Len(s)))

\* s[-n:] for n >= 0.  -0 is 0, so s[-0:] is s[0:], the whole list.
SliceTail(s, n) ==
    IF n = 0 \/ n >= Len(s) THEN s ELSE SubSeq(s, Len(s) - n + 1, Len(s))

DigitChar == <<"0", "1", "2", "3", "4", "5", "6", "7", "8", "9">>

\* str(n) of a non-negative int: its decimal digits
RECURSIVE Str(_)
Str(n) ==
    IF n < 10 THEN <<DigitChar[n + 1]>>
    ELSE Append(Str(n \div 10), DigitChar[(n % 10) + 1])

\* "\n".join(xs) for a list of strings
RECURSIVE Join(_)
Join(xs) ==
    IF Len(xs) = 0 THEN <<>>
    ELSE IF Len(xs) = 1 THEN xs[1]
    ELSE xs[1] \o <<"\n">> \o Join(Tail(xs))

(***************************************************************************)
(* The diff converter.                                                     *)
(*                                                                         *)
(* A section is a dict: {"ab": [...]}, {"a": [...]}, {"b": [...]},         *)
(* {"a": [...], "b": [...]} or {"skip": n}.  The converter moves the       *)
(* lines of a section without looking into them, so the k-th line of a     *)
(* list is modelled by a text that differs from the texts of the other     *)
(* lines of the list.                                                      *)
(***************************************************************************)
LineText(k) == <<"t">> \o Str(k)

Lines(n) == [k \in 1..n |-> LineText(k)]

\* lines on one side of a change section; counts of the "skip" sections
ChangeLens == {1, 2}
SkipCounts == {1, 12}

DiffSections ==
    {[ab |-> Lines(n)] : n \in 0..MaxAbLen}
    \cup {[a |-> Lines(n)] : n \in ChangeLens}
    \cup {[b |-> Lines(n)] : n \in ChangeLens}
    \cup {[a |-> Lines(n), b |-> Lines(n)] : n \in ChangeLens}
    \cup {[skip |-> n] : n \in SkipCounts}

\* f" {line}", f"-{line}", f"+{line}"
ContextLine(l) == <<" ">> \o l
RemovedLine(l) == <<"-">> \o l
AddedLine(l) == <<"+">> \o l

\* f"@@ ... skipped {n} lines ... @@"
SkippedLine(n) == <<"@@ ... skipped ">> \o Str(n) \o <<" lines ... @@">>

\* for line in xs: lines.append(f(line))
AppendContext(out, xs) == out \o [k \in 1..Len(xs) |-> ContextLine(xs[k])]
AppendRemoved(out, xs) == out \o [k \in 1..Len(xs) |-> RemovedLine(xs[k])]
AppendAdded(out, xs) == out \o [k \in 1..Len(xs) |-> AddedLine(xs[k])]

\* _is_change_section taking every section that is not context for a change
_is_change_section_NotContext(section) ==
    "ab" \notin DOMAIN section

_is_change_section(section) ==
    "a" \in DOMAIN section \/ "b" \in DOMAIN section

\* the section of the current iteration (content_sections is 1-based here)
section == content_sections[i + 1]

is_before_change ==
    i < Len(content_sections) - 1 /\ _is_change_section(content_sections[i + 2])

is_after_change ==
    i > 0 /\ _is_change_section(content_sections[i])

InLoop == pc = "loop" /\ i < Len(content_sections)

NextIteration ==
    /\ i' = i + 1
    /\ UNCHANGED <<content_sections, context, pc, result>>
    /\ UNCHANGED <<reviewVars, viewVars, clientVars, callerVars,
                   checkoutVars, pathVars>>

\* AbBetween collapsing as a one-sided run does (total_lines > context)
AbBetween_OneSidedThreshold ==
    /\ InLoop
    /\ "ab" \in DOMAIN section
    /\ is_before_change /\ is_after_change
    /\ LET ab_lines == section.ab
           total_lines == Len(ab_lines)
       IN  lines' =
             IF total_lines > context
             THEN AppendContext(
                    Append(AppendContext(lines, SliceHead(ab_lines, context)),
                           SkippedLine(total_lines - context * 2)),
                    SliceTail(ab_lines, context))
             ELSE AppendContext(lines, ab_lines)
    /\ NextIteration

\* "ab" section between two changes
AbBetween ==
    /\ InLoop
    /\ "ab" \in DOMAIN section
    /\ is_before_change /\ is_after_change
    /\ LET ab_lines == section.ab
           total_lines == Len(ab_lines)
       IN  lines' =
             IF total_lines > context * 2
             THEN AppendContext(
                    Append(AppendContext(lines, SliceHead(ab_lines, context)),
                           SkippedLine(total_lines - context * 2)),
                    SliceTail(ab_lines, context))
             ELSE AppendContext(lines, ab_lines)
    /\ NextIteration

\* AbBeforeChange keeping the first lines of the run instead of the last
AbBeforeChange_KeepsHead ==
    /\ InLoop
    /\ "ab" \in DOMAIN section
    /\ is_before_change /\ ~is_after_change
    /\ LET ab_lines == section.ab
           total_lines == Len(ab_lines)
       IN  lines' =
             IF total_lines > context
             THEN AppendContext(
                    Append(lines, SkippedLine(total_lines - context)),
                    SliceHead(ab_lines, context))
             ELSE AppendContext(lines, ab_lines)
    /\ NextIteration

\* "ab" section before a change only
AbBeforeChange ==
    /\ InLoop
    /\ "ab" \in DOMAIN section
    /\ is_before_change /\ ~is_after_change
    /\ LET ab_lines == section.ab
           total_lines == Len(ab_lines)
       IN  lines' =
             IF total_lines > context
             THEN AppendContext(
                    Append(lines, SkippedLine(total_lines - context)),
                    SliceTail(ab_lines, context))
             ELSE AppendContext(lines, ab_lines)
    /\ NextIteration

\* "ab" section after a change only
AbAfterChange ==
    /\ InLoop
    /\ "ab" \in DOMAIN section
    /\ ~is_before_change /\ is_after_change
    /\ LET ab_lines == section.ab
           total_lines == Len(ab_lines)
       IN  lines' =
             IF total_lines > context
             THEN Append(AppendContext(lines, SliceHead(ab_lines, context)),
                         SkippedLine(total_lines - context))
             ELSE AppendContext(lines, ab_lines)
    /\ NextIteration

\* AbIsolated keeping the edges of the run, as AbBetween does
AbIsolated_KeepsEdges ==
    /\ InLoop
    /\ "ab" \in DOMAIN section
    /\ ~is_before_change /\ ~is_after_change
    /\ LET ab_lines == section.ab
           total_lines == Len(ab_lines)
       IN  lines' =
             IF total_lines > context * 2
             THEN AppendContext(
                    Append(AppendContext(lines, SliceHead(ab_lines, context)),
                           SkippedLine(total_lines - context * 2)),
                    SliceTail(ab_lines, context))
             ELSE AppendContext(lines, ab_lines)
    /\ NextIteration

\* isolated "ab" section
AbIsolated ==
    /\ InLoop
    /\ "ab" \in DOMAIN section
    /\ ~is_before_change /\ ~is_after_change
    /\ LET ab_lines == section.ab
           total_lines == Len(ab_lines)
       IN  lines' =
             IF total_lines > context * 2
             THEN Append(lines, SkippedLine(total_lines))
             ELSE AppendContext(lines, ab_lines)
    /\ NextIteration

\* SkipSection taking a section with "skip" for a run of that many lines
SkipSection_CountPlusOne ==
    /\ InLoop
    /\ "ab" \notin DOMAIN section
    /\ "skip" \in DOMAIN section
    /\ lines' = Append(lines, SkippedLine(section.skip + 1))
    /\ NextIteration

SkipSection ==
    /\ InLoop
    /\ "ab" \notin DOMAIN section
    /\ "skip" \in DOMAIN section
    /\ lines' = Append(lines, SkippedLine(section.skip))
    /\ NextIteration

\* ReplaceSection with the added lines before the removed lines
ReplaceSection_AddedFirst ==
    /\ InLoop
    /\ "ab" \notin DOMAIN section /\ "skip" \notin DOMAIN section
    /\ "a" \in DOMAIN section /\ "b" \in DOMAIN section
    /\ lines' = AppendRemoved(AppendAdded(lines, section.b), section.a)
    /\ NextIteration

ReplaceSection ==
    /\ InLoop
    /\ "ab" \notin DOMAIN section /\ "skip" \notin DOMAIN section
    /\ "a" \in DOMAIN section /\ "b" \in DOMAIN section
    /\ lines' = AppendAdded(AppendRemoved(lines, section.a), section.b)
    /\ NextIteration

RemovedSection ==
    /\ InLoop
    /\ "ab" \notin DOMAIN section /\ "skip" \notin DOMAIN section
    /\ "a" \in DOMAIN section /\ "b" \notin DOMAIN section
    /\ lines' = AppendRemoved(lines, section.a)
    /\ NextIteration

AddedSection ==
    /\ InLoop
    /\ "ab" \notin DOMAIN section /\ "skip" \notin DOMAIN section
    /\ "a" \notin DOMAIN section /\ "b" \in DOMAIN section
    /\ lines' = AppendAdded(lines, section.b)
    /\ NextIteration

\* return "\n".join(lines)
Return ==
    /\ pc = "loop"
    /\ i = Len(content_sections)
    /\ result' = Some(Join(lines))
    /\ pc' = "done"
    /\ UNCHANGED <<content_sections, context, i, lines>>
    /\ UNCHANGED <<reviewVars, viewVars, clientVars, callerVars,
                   checkoutVars, pathVars>>

ReviewIdle ==
    /\ message = None
    /\ file_text = None
    /\ code_review = None
    /\ verified = None
    /\ inline_comment = <<>>
    /\ review_message = None
    /\ labels = <<>>
    /\ comments = <<>>
    /\ taken = 0
    /\ f = <<>>
    /\ l_raw = <<>>
    /\ line = None
    /\ comment_range = None
    /\ rpc = "idle"
    /\ exit_code = None
    /\ sent = <<>>

ViewIdle ==
    /\ parts_option = None
    /\ output_format = "table"
    /\ parts_list = None
    /\ error = None
    /\ show_parts = <<>>
    /\ change = None
    /\ files_data = None
    /\ diffs_data = None
    /\ comments_data = None
    /\ files = <<>>
    /\ diffs = <<>>
    /\ fetched = 0
    /\ vpc = "idle"
    /\ output = None
    /\ view_exit = None

ClientIdle ==
    /\ api_call = None
    /\ api_result = None
    /\ requests = <<>>
    /\ response = None

CallerIdle ==
    /\ given = <<>>
    /\ calls = <<>>

CheckoutIdle ==
    /\ branch = None
    /\ force = FALSE
    /\ no_checkout = FALSE
    /\ stash = None
    /\ branches = {}
    /\ HEAD = None
    /\ stashed = 0
    /\ change_info = None
    /\ ref_spec = None
    /\ branch_name = None
    /\ steps = <<>>
    /\ cpc = "idle"
    /\ checkout_exit = None

PathIdle ==
    /\ path = <<>>
    /\ max_length = 0
    /\ shortened = None

InitDiff ==
    /\ content_sections \in UNION {[1..n -> DiffSections] : n \in 0..MaxSections}
    /\ context \in 0..MaxContext
    /\ i = 0
    /\ lines = <<>>
    /\ pc = "loop"
    /\ result = None
    /\ ReviewIdle
    /\ ViewIdle
    /\ ClientIdle
    /\ CallerIdle
    /\ CheckoutIdle
    /\ PathIdle

NextDiff ==
    \/ AbBetween
    \/ AbBeforeChange
    \/ AbAfterChange
    \/ AbIsolated
    \/ SkipSection
    \/ ReplaceSection
    \/ RemovedSection
    \/ AddedSection
    \/ Return

SpecDiff == InitDiff /\ [][NextDiff]_vars

(***************************************************************************)
(* The converter called again and again, as _render_diffs_panel calls it   *)
(* for one file after the other.  The caller keeps what it passed and      *)
(* what it got back.  Every call starts with its own empty `lines` and     *)
(* its own enumerate.  Specification SpecCalls.                            *)
(***************************************************************************)
CallDiffs ==
    {<<>>,
     <<[a |-> Lines(1)], [ab |-> Lines(3)], [b |-> Lines(1)]>>,
     <<[ab |-> Lines(3)], [a |-> Lines(1), b |-> Lines(1)], [ab |-> Lines(3)]>>,
     <<[ab |-> Lines(3)], [skip |-> 1]>>}

CallContexts == {0, 1}

\* the record of the call that has just returned
Returned ==
    [given |-> given, content |-> content_sections, context |-> context,
     returned |-> result[1]]

\* Call with the list `lines` of the call before
Call_KeepsLines ==
    /\ pc = "done"
    /\ Len(calls) < MaxCalls - 1
    /\ calls' = Append(calls, Returned)
    /\ \E diff \in CallDiffs, ctx \in CallContexts :
           /\ given' = diff
           /\ content_sections' = diff
           /\ context' = ctx
    /\ i' = 0
    /\ lines' = lines
    /\ pc' = "loop"
    /\ result' = None
    /\ UNCHANGED <<reviewVars, viewVars, clientVars,
                   checkoutVars, pathVars>>

\* table.py 317 and 458-461: the converter returned, and is called again
Call ==
    /\ pc = "done"
    /\ Len(calls) < MaxCalls - 1
    /\ calls' = Append(calls, Returned)
    /\ \E diff \in CallDiffs, ctx \in CallContexts :
           /\ given' = diff
           /\ content_sections' = diff
           /\ context' = ctx
    /\ i' = 0
    /\ lines' = <<>>
    /\ pc' = "loop"
    /\ result' = None
    /\ UNCHANGED <<reviewVars, viewVars, clientVars,
                   checkoutVars, pathVars>>

InitCalls ==
    /\ given \in CallDiffs
    /\ content_sections = given
    /\ context \in CallContexts
    /\ i = 0
    /\ lines = <<>>
    /\ pc = "loop"
    /\ result = None
    /\ calls = <<>>
    /\ ReviewIdle
    /\ ViewIdle
    /\ ClientIdle
    /\ CheckoutIdle
    /\ PathIdle

NextCalls ==
    \/ NextDiff
    \/ Call

SpecCalls == InitCalls /\ [][NextCalls]_vars

(***************************************************************************)
(* Python string primitives used by the review command.                    *)
(***************************************************************************)
Chars(s) == {s[k] : k \in 1..Len(s)}

At(s, p) == IF p \in 1..Len(s) THEN s[p] ELSE "<end>"

IsDigit(c) == c \in Chars(DigitChar)

IsSpace(c) == c \in {" ", "\n", "\t", "\r"}

DigitValue(c) == CHOOSE d \in 0..9 : DigitChar[d + 1] = c

\* p is the position after the longest run of digits that starts at p
RECURSIVE DigitsEnd(_, _)
DigitsEnd(s, p) ==
    IF p <= Len(s) /\ IsDigit(s[p]) THEN DigitsEnd(s, p + 1) ELSE p

\* re.match(r"^L(\d+)C(\d+)-L(\d+)C(\d+)$", s, re.IGNORECASE): Some(groups)
\* or None.  A run of \d+ is followed by a non-digit of the pattern, so only
\* the longest run can match; $ matches at the end of the string and before
\* a newline that ends the string.
char_range_match(s) ==
    LET e1 == DigitsEnd(s, 2)
        e2 == DigitsEnd(s, e1 + 1)
        e3 == DigitsEnd(s, e2 + 2)
        e4 == DigitsEnd(s, e3 + 1)
    IN  IF /\ At(s, 1) \in {"L", "l"}
           /\ e1 > 2
           /\ At(s, e1) \in {"C", "c"}
           /\ e2 > e1 + 1
           /\ At(s, e2) = "-"
           /\ At(s, e2 + 1) \in {"L", "l"}
           /\ e3 > e2 + 2
           /\ At(s, e3) \in {"C", "c"}
           /\ e4 > e3 + 1
           /\ (e4 = Len(s) + 1 \/ (e4 = Len(s) /\ s[e4] = "\n"))
        THEN Some(<<SubSeq(s, 2, e1 - 1), SubSeq(s, e1 + 1, e2 - 1),
                    SubSeq(s, e2 + 2, e3 - 1), SubSeq(s, e3 + 1, e4 - 1)>>)
        ELSE None

RECURSIVE LStrip(_)
LStrip(s) == IF Len(s) > 0 /\ IsSpace(s[1]) THEN LStrip(Tail(s)) ELSE s

RECURSIVE RStrip(_)
RStrip(s) ==
    IF Len(s) > 0 /\ IsSpace(s[Len(s)])
    THEN RStrip(SubSeq(s, 1, Len(s) - 1)) ELSE s

\* value of digits that may be separated by underscores, left to right
RECURSIVE Accumulate(_, _)
Accumulate(s, acc) ==
    IF Len(s) = 0 THEN acc
    ELSE IF s[1] = "_" THEN Accumulate(Tail(s), acc)
    ELSE Accumulate(Tail(s), acc * 10 + DigitValue(s[1]))

\* int(s) of a str: Some(value), or None for ValueError.  int() accepts
\* surrounding whitespace, one sign, and single underscores between digits.
int(s) ==
    LET t == RStrip(LStrip(s))
        signed == Len(t) > 0 /\ t[1] \in {"+", "-"}
        body == IF signed THEN Tail(t) ELSE t
    IN  IF /\ Len(body) > 0
           /\ \A p \in 1..Len(body) : IsDigit(body[p]) \/ body[p] = "_"
           /\ IsDigit(body[1]) /\ IsDigit(body[Len(body)])
           /\ \A p \in 1..(Len(body) - 1) : ~(body[p] = "_" /\ body[p + 1] = "_")
        THEN Some(IF signed /\ t[1] = "-"
                  THEN 0 - Accumulate(body, 0) ELSE Accumulate(body, 0))
        ELSE None

\* s.split("-")
RECURSIVE split(_)
split(s) ==
    IF "-" \notin Chars(s) THEN <<s>>
    ELSE LET p == CHOOSE q \in 1..Len(s) :
                      s[q] = "-" /\ \A r \in 1..(q - 1) : s[r] # "-"
         IN  <<SubSeq(s, 1, p - 1)>> \o split(SubSeq(s, p + 1, Len(s)))

\* rsplit cutting at the first '#' instead of the last
rsplit_First(s) ==
    LET p == CHOOSE q \in 1..Len(s) :
                 s[q] = "#" /\ \A r \in 1..(q - 1) : s[r] # "#"
    IN  <<SubSeq(s, 1, p - 1), SubSeq(s, p + 1, Len(s))>>

\* s.rsplit("#", 1) of a string that contains "#"
rsplit(s) ==
    LET p == CHOOSE q \in 1..Len(s) :
                 s[q] = "#" /\ \A r \in (q + 1)..Len(s) : s[r] # "#"
    IN  <<SubSeq(s, 1, p - 1), SubSeq(s, p + 1, Len(s))>>

\* bool(x) of an Optional string: None and "" are false
Truthy(x) == x # None /\ Len(x[1]) > 0

(***************************************************************************)
(* The review command.                                                     *)
(***************************************************************************)
DiffIdle ==
    /\ content_sections = <<>>
    /\ context = 0
    /\ i = 0
    /\ lines = <<>>
    /\ pc = "idle"
    /\ result = None

\* CommentRange ending on its start line
CommentRange_EndIsStart(sl, sc, el, ec) ==
    [start_line |-> sl, start_character |-> sc,
     end_line |-> sl, end_character |-> ec]

CommentRange(sl, sc, el, ec) ==
    [start_line |-> sl, start_character |-> sc,
     end_line |-> el, end_character |-> ec]

CommentInput(ln, msg, rng) ==
    [path |-> None, line |-> Some(ln), range |-> rng, message |-> Some(msg),
     side |-> Some("REVISION"), in_reply_to |-> None, unresolved |-> None]

\* model_dump(exclude_none=True) of a flat model: the fields that are not None
Dump(r) == [key \in {x \in DOMAIN r : r[x] # None} |-> r[key][1]]

\* ReviewInput(...).model_dump(exclude_none=True)
DumpReviewInput(msg, lbls, cmts) ==
    Dump([message |-> msg,
          labels |-> lbls,
          comments |->
              IF cmts = None THEN None
              ELSE Some([file \in DOMAIN cmts[1] |->
                           [c \in 1..Len(cmts[1][file]) |->
                               Dump(cmts[1][file][c])]])])

\* sys.exit(1)
Exit1 ==
    /\ exit_code' = Some(1)
    /\ rpc' = "done"

\* ReviewStart without the validation of lines 77-83
ReviewStart_NoValidation ==
    /\ rpc = "start"
    /\ LET msg == IF Truthy(message) THEN message
                  ELSE IF file_text # None THEN file_text
                  ELSE None
           cr == IF Truthy(code_review)
                 THEN [l \in {"Code-Review"} |-> int(code_review[1])[1]]
                 ELSE <<>>
           lbls == IF Truthy(verified)
                   THEN [l \in DOMAIN cr \cup {"Verified"} |->
                           IF l = "Verified" THEN int(verified[1])[1] ELSE cr[l]]
                   ELSE cr
       IN  /\ review_message' = msg
           /\ labels' = lbls
           /\ rpc' = "loop" /\ exit_code' = exit_code
    /\ comments' = <<>>
    /\ UNCHANGED <<message, file_text, code_review, verified, inline_comment,
                   taken, f, l_raw, line, comment_range, sent>>
    /\ UNCHANGED <<diffVars, viewVars, clientVars, callerVars,
                   checkoutVars, pathVars>>

\* lines 61-83: the message, the labels and the validation
ReviewStart ==
    /\ rpc = "start"
    /\ LET msg == IF Truthy(message) THEN message
                  ELSE IF file_text # None THEN file_text
                  ELSE None
           cr == IF Truthy(code_review)
                 THEN [l \in {"Code-Review"} |-> int(code_review[1])[1]]
                 ELSE <<>>
           lbls == IF Truthy(verified)
                   THEN [l \in DOMAIN cr \cup {"Verified"} |->
                           IF l = "Verified" THEN int(verified[1])[1] ELSE cr[l]]
                   ELSE cr
       IN  /\ review_message' = msg
           /\ labels' = lbls
           /\ IF ~Truthy(msg) /\ DOMAIN lbls = {} /\ Len(inline_comment) = 0
              THEN Exit1
              ELSE rpc' = "loop" /\ exit_code' = exit_code
    /\ comments' = <<>>
    /\ UNCHANGED <<message, file_text, code_review, verified, inline_comment,
                   taken, f, l_raw, line, comment_range, sent>>
    /\ UNCHANGED <<diffVars, viewVars, clientVars, callerVars,
                   checkoutVars, pathVars>>

InTokens == rpc = "loop" /\ taken < Len(inline_comment)

\* the token of the current iteration
location_spec == inline_comment[taken + 1][1]
m == inline_comment[taken + 1][2]

\* lines 94-95: comments with a list for file name fn
WithFile(fn) ==
    [x \in DOMAIN comments \cup {fn} |->
        IF x \in DOMAIN comments THEN comments[x] ELSE <<>>]

\* AppendComment putting the new comment in front of the file's list
AppendComment_Prepends(fn, ln, rng) ==
    /\ comments' = [WithFile(fn) EXCEPT ![fn] =
                        <<CommentInput(ln, m, rng)>> \o @]
    /\ line' = Some(ln)
    /\ comment_range' = rng
    /\ taken' = taken + 1
    /\ UNCHANGED <<rpc, exit_code>>

\* line 135: comments[f].append(CommentInput(...)), and the next iteration
AppendComment(fn, ln, rng) ==
    /\ comments' = [WithFile(fn) EXCEPT ![fn] =
                        Append(@, CommentInput(ln, m, rng))]
    /\ line' = Some(ln)
    /\ comment_range' = rng
    /\ taken' = taken + 1
    /\ UNCHANGED <<rpc, exit_code>>

\* an except ValueError branch: the error message and sys.exit(1)
\* InvalidLocation going on with the next token instead of leaving
InvalidLocation_Continues(fn) ==
    /\ comments' = WithFile(fn)
    /\ comment_range' = None
    /\ taken' = taken + 1
    /\ UNCHANGED <<line, rpc, exit_code>>

InvalidLocation(fn) ==
    /\ comments' = WithFile(fn)
    /\ comment_range' = None
    /\ UNCHANGED <<line, taken>>
    /\ Exit1

TokenFrame ==
    /\ UNCHANGED <<message, file_text, code_review, verified, inline_comment,
                   review_message, labels, sent>>
    /\ UNCHANGED <<diffVars, viewVars, clientVars, callerVars,
                   checkoutVars, pathVars>>

\* MissingSeparator passing over the token instead of leaving
MissingSeparator_Skipped ==
    /\ InTokens
    /\ "#" \notin Chars(location_spec)
    /\ taken' = taken + 1
    /\ UNCHANGED <<comments, rpc, exit_code, f, l_raw, line, comment_range>>
    /\ TokenFrame

\* lines 88-90: a token without '#'
MissingSeparator ==
    /\ InTokens
    /\ "#" \notin Chars(location_spec)
    /\ Exit1
    /\ UNCHANGED <<comments, taken, f, l_raw, line, comment_range>>
    /\ TokenFrame

\* CharRange with the comment anchored at the start line
CharRange_LineIsStart ==
    /\ InTokens
    /\ "#" \in Chars(location_spec)
    /\ LET parts == rsplit(location_spec)
           char_range_match_ == char_range_match(parts[2])
       IN  /\ f' = parts[1]
           /\ l_raw' = parts[2]
           /\ char_range_match_ # None
           /\ LET groups == char_range_match_[1]
                  start_line == int(groups[1])[1]
                  start_char == int(groups[2])[1]
                  end_line == int(groups[3])[1]
                  end_char == int(groups[4])[1]
              IN  AppendComment(parts[1], start_line,
                                Some(CommentRange(start_line, start_char,
                                                  end_line, end_char)))
    /\ TokenFrame

\* lines 92-111 and 135: a character range
CharRange ==
    /\ InTokens
    /\ "#" \in Chars(location_spec)
    /\ LET parts == rsplit(location_spec)
           char_range_match_ == char_range_match(parts[2])
       IN  /\ f' = parts[1]
           /\ l_raw' = parts[2]
           /\ char_range_match_ # None
           /\ LET groups == char_range_match_[1]
                  start_line == int(groups[1])[1]
                  start_char == int(groups[2])[1]
                  end_line == int(groups[3])[1]
                  end_char == int(groups[4])[1]
              IN  AppendComment(parts[1], end_line,
                                Some(CommentRange(start_line, start_char,
                                                  end_line, end_char)))
    /\ TokenFrame

\* LineRange with start and end taken in the wrong order
LineRange_Swapped ==
    /\ InTokens
    /\ "#" \in Chars(location_spec)
    /\ LET parts == rsplit(location_spec)
           pieces == split(parts[2])
       IN  /\ f' = parts[1]
           /\ l_raw' = parts[2]
           /\ char_range_match(parts[2]) = None
           /\ "-" \in Chars(parts[2])
           /\ IF /\ Len(pieces) = 2
                 /\ int(pieces[1]) # None
                 /\ int(pieces[2]) # None
              THEN LET start == int(pieces[2])[1]
                       end == int(pieces[1])[1]
                   IN  AppendComment(parts[1], end,
                                     Some(CommentRange(start, 0, end, 10000)))
              ELSE InvalidLocation(parts[1])
    /\ TokenFrame

\* lines 92-100, 112-127 and 135: a line range
LineRange ==
    /\ InTokens
    /\ "#" \in Chars(location_spec)
    /\ LET parts == rsplit(location_spec)
           pieces == split(parts[2])
       IN  /\ f' = parts[1]
           /\ l_raw' = parts[2]
           /\ char_range_match(parts[2]) = None
           /\ "-" \in Chars(parts[2])
           \* start, end = map(int, pieces): ValueError from int() or from
           \* unpacking anything but two values
           /\ IF /\ Len(pieces) = 2
                 /\ int(pieces[1]) # None
                 /\ int(pieces[2]) # None
              THEN LET start == int(pieces[1])[1]
                       end == int(pieces[2])[1]
                   IN  AppendComment(parts[1], end,
                                     Some(CommentRange(start, 0, end, 10000)))
              ELSE InvalidLocation(parts[1])
    /\ TokenFrame

\* SingleLine giving the comment the range of the whole line
SingleLine_WithRange ==
    /\ InTokens
    /\ "#" \in Chars(location_spec)
    /\ LET parts == rsplit(location_spec)
       IN  /\ f' = parts[1]
           /\ l_raw' = parts[2]
           /\ char_range_match(parts[2]) = None
           /\ "-" \notin Chars(parts[2])
           /\ IF int(parts[2]) # None
              THEN AppendComment(parts[1], int(parts[2])[1],
                                 Some(CommentRange(int(parts[2])[1], 0,
                                                   int(parts[2])[1], 10000)))
              ELSE InvalidLocation(parts[1])
    /\ TokenFrame

\* lines 92-100 and 128-135: a single line
SingleLine ==
    /\ InTokens
    /\ "#" \in Chars(location_spec)
    /\ LET parts == rsplit(location_spec)
       IN  /\ f' = parts[1]
           /\ l_raw' = parts[2]
           /\ char_range_match(parts[2]) = None
           /\ "-" \notin Chars(parts[2])
           /\ IF int(parts[2]) # None
              THEN AppendComment(parts[1], int(parts[2])[1], None)
              ELSE InvalidLocation(parts[1])
    /\ TokenFrame

\* lines 137-166: the review is built and sent; the request succeeds, or
\* GerritClient raises a GerritCliError and the command exits with status 1
SendReview ==
    /\ rpc = "loop"
    /\ taken = Len(inline_comment)
    /\ sent' = Append(sent,
                      DumpReviewInput(
                          review_message,
                          IF DOMAIN labels # {} THEN Some(labels) ELSE None,
                          IF DOMAIN comments # {} THEN Some(comments) ELSE None))
    /\ \E outcome \in {"ok", "GerritCliError"} :
           exit_code' = IF outcome = "ok" THEN Some(0) ELSE Some(1)
    /\ rpc' = "done"
    /\ UNCHANGED <<message, file_text, code_review, verified, inline_comment,
                   review_message, labels, comments, taken, f, l_raw, line,
                   comment_range>>
    /\ UNCHANGED <<diffVars, viewVars, clientVars, callerVars,
                   checkoutVars, pathVars>>

NextReview ==
    \/ ReviewStart
    \/ MissingSeparator
    \/ CharRange
    \/ LineRange
    \/ SingleLine
    \/ SendReview

(***************************************************************************)
(* Inputs of SpecLoc: the review command with at most one inline-comment   *)
(* token.  The location part is any string of at most MaxLocLen characters *)
(* of LocChars, or a character range built from its pieces, each piece     *)
(* right or wrong.                                                         *)
(***************************************************************************)
LocChars == {"0", "1", "-", " ", "+", "_", "x", "\n"}

Strings(alphabet, len) == UNION {[1..k -> alphabet] : k \in 0..len}

ShortParts == Strings(LocChars, MaxLocLen)

\* the numbers of a character range: missing, one digit, two digits
RangeNumbers == {<<>>, <<"0">>, <<"1">>, <<"1", "0">>}

CharRangeParts ==
    {pre \o <<l1>> \o n1 \o <<c1>> \o n2 \o <<"-">> \o <<l2>> \o n3
         \o <<c2>> \o n4 \o post :
       pre \in {<<>>, <<"x">>},
       l1 \in {"L", "l"}, n1 \in RangeNumbers,
       c1 \in {"C", "c"}, n2 \in RangeNumbers,
       l2 \in {"L", "l"}, n3 \in RangeNumbers,
       c2 \in {"C", "c"}, n4 \in RangeNumbers,
       post \in {<<>>, <<"\n">>, <<"x">>}}

LocationParts == ShortParts \cup CharRangeParts

FileName == <<"a", ".", "p", "y">>

LocTokens ==
    {FileName \o <<"#">> \o part : part \in LocationParts} \cup {FileName}

InitLoc ==
    /\ message \in {None, Some("LGTM")}
    /\ file_text = None
    /\ code_review = None
    /\ verified = None
    /\ inline_comment \in
         {<<>>} \cup {<<<<token, "Fix typo">>>> : token \in LocTokens}
    /\ review_message = None
    /\ labels = <<>>
    /\ comments = <<>>
    /\ taken = 0
    /\ f = <<>>
    /\ l_raw = <<>>
    /\ line = None
    /\ comment_range = None
    /\ rpc = "start"
    /\ exit_code = None
    /\ sent = <<>>
    /\ DiffIdle
    /\ ViewIdle
    /\ ClientIdle
    /\ CallerIdle
    /\ CheckoutIdle
    /\ PathIdle

SpecLoc == InitLoc /\ [][NextReview]_vars

(***************************************************************************)
(* Inputs of SpecReview: the review command with every option varied and   *)
(* at most MaxTokens inline-comment tokens, over a plain file name and one *)
(* that has a '#' in it, each of the three location forms, a location that *)
(* is not valid, and a token without '#'.                                  *)
(***************************************************************************)
ReviewSpecs ==
    {<<"a", "#", "1">>,
     <<"a", "#", "2", "-", "3">>,
     <<"a", "#", "L", "0", "C", "1", "0", "-", "L", "1", "C", "0">>,
     <<"w", "#", "p", "#", "7">>,
     <<"a", "#", "x">>,
     <<"a">>}

ReviewTokens == {<<t, msg>> : t \in ReviewSpecs, msg \in {"m1", "m2"}}

\* click.Choice of --code-review and --verified, a sample of each
CodeReviewChoices == {None, Some(<<"0">>), Some(<<"+", "2">>)}
VerifiedChoices == {None, Some(<<"-", "1">>)}

InitReview ==
    /\ message \in {None, Some(""), Some("LGTM")}
    /\ file_text \in {None, Some(""), Some("from file")}
    /\ code_review \in CodeReviewChoices
    /\ verified \in VerifiedChoices
    /\ inline_comment \in UNION {[1..k -> ReviewTokens] : k \in 0..MaxTokens}
    /\ review_message = None
    /\ labels = <<>>
    /\ comments = <<>>
    /\ taken = 0
    /\ f = <<>>
    /\ l_raw = <<>>
    /\ line = None
    /\ comment_range = None
    /\ rpc = "start"
    /\ exit_code = None
    /\ sent = <<>>
    /\ DiffIdle
    /\ ViewIdle
    /\ ClientIdle
    /\ CallerIdle
    /\ CheckoutIdle
    /\ PathIdle

SpecReview == InitReview /\ [][NextReview]_vars

(***************************************************************************)
(* GerritClient (src/src/gerrit_cli/client/api.py).  A request is recorded *)
(* with its endpoint, the file path in it (the per-file diff only) and its *)
(* params dict.  The server's answer is an HTTP status, or no answer at    *)
(* all (httpx.RequestError).                                               *)
(***************************************************************************)
Request(endpoint, file_path, params) ==
    [endpoint |-> endpoint, file_path |-> file_path, params |-> params]

\* the prefix ")]}'\n" Gerrit puts before its JSON
XSSI == <<")", "]", "}", "'", "\n">>

\* json.decoder WHITESPACE.match(s, p).end(): the position after the run of
\* blanks that starts at p
RECURSIVE skip_ws(_, _)
skip_ws(s, p) ==
    IF p <= Len(s) /\ s[p] \in {" ", "\t", "\n", "\r"} THEN skip_ws(s, p + 1)
    ELSE p

\* json.scanner scan_once(s, p) for texts without strings, literals, signs
\* and fractions: Some([value, end]) or None (StopIteration).  The value is
\* kept as its text without blanks.
RECURSIVE scan_once(_, _)
RECURSIVE JSONArray(_, _, _)
scan_once(s, p) ==
    IF p > Len(s) THEN None
    ELSE IF s[p] = "{"
    THEN LET q == skip_ws(s, p + 1)
         IN  IF q <= Len(s) /\ s[q] = "}"
             THEN Some([value |-> <<"{", "}">>, end |-> q + 1])
             ELSE None
    ELSE IF s[p] = "["
    THEN LET q == skip_ws(s, p + 1)
         IN  IF q <= Len(s) /\ s[q] = "]"
             THEN Some([value |-> <<"[", "]">>, end |-> q + 1])
             ELSE JSONArray(s, q, <<"[">>)
    ELSE IF IsDigit(s[p])
    THEN LET e == IF s[p] = "0" THEN p + 1 ELSE DigitsEnd(s, p)
         IN  Some([value |-> SubSeq(s, p, e - 1), end |-> e])
    ELSE None

\* the loop of JSONArray: a value, then ']' or ',' and the next value
JSONArray(s, p, acc) ==
    LET item == scan_once(s, p)
    IN  IF item = None THEN None
        ELSE LET q == skip_ws(s, item[1].end)
             IN  IF q > Len(s) THEN None
                 ELSE IF s[q] = "]"
                 THEN Some([value |-> acc \o item[1].value \o <<"]">>,
                            end |-> q + 1])
                 ELSE IF s[q] = ","
                 THEN JSONArray(s, skip_ws(s, q + 1),
                                acc \o item[1].value \o <<",">>)
                 ELSE None

\* json.loads(s): Some(value), or None for a JSONDecodeError
json_loads(s) ==
    LET item == scan_once(s, skip_ws(s, 1))
    IN  IF item = None THEN None
        ELSE IF skip_ws(s, item[1].end) # Len(s) + 1 THEN None
        ELSE Some(item[1].value)

\* _parse_response(response), lines 96-120
_parse_response(text) ==
    LET startswith == /\ Len(text) >= Len(XSSI)
                      /\ SubSeq(text, 1, Len(XSSI)) = XSSI
        body == IF startswith THEN SubSeq(text, Len(XSSI) + 1, Len(text))
                ELSE text
    IN  IF Len(LStrip(RStrip(body))) = 0
        THEN [raised |-> None, data |-> Some(<<"{", "}">>)]
        ELSE IF json_loads(body) = None
        THEN [raised |-> Some("ApiError"), data |-> None]
        ELSE [raised |-> None, data |-> json_loads(body)]

\* what a call of _make_request ends in: the exception class raised and the
\* status_code it carries, or the data returned
Outcome(raised, status_code, data) ==
    [raised |-> raised, status_code |-> status_code, data |-> data]

\* _make_request taking only 401 and 404 for errors
_make_request_OnlyTwoErrors(resp) ==
    IF resp = None THEN Outcome(Some("ApiError"), None, None)
    ELSE IF resp[1].status_code = 401
    THEN Outcome(Some("AuthenticationError"), None, None)
    ELSE IF resp[1].status_code = 404
    THEN Outcome(Some("NotFoundError"), None, None)
    ELSE LET parsed == _parse_response(resp[1].text)
         IN  Outcome(parsed.raised, None, parsed.data)

\* _make_request, lines 69-94, for the response resp of client.request, None
\* when client.request raised an httpx.RequestError
_make_request(resp) ==
    IF resp = None THEN Outcome(Some("ApiError"), None, None)
    ELSE IF resp[1].status_code = 401
    THEN Outcome(Some("AuthenticationError"), None, None)
    ELSE IF resp[1].status_code = 404
    THEN Outcome(Some("NotFoundError"), None, None)
    ELSE IF resp[1].status_code >= 400
    THEN Outcome(Some("ApiError"), Some(resp[1].status_code), None)
    ELSE LET parsed == _parse_response(resp[1].text)
         IN  Outcome(parsed.raised, None, parsed.data)

\* the exception _make_request raises for a response, None when it returns
Raised(resp) == _make_request(resp).raised

\* the bodies a server sends: JSON texts and others, with the prefix, without
\* it, with two of them and with a blank before it
Bodies ==
    LET texts == {<<>>, <<"\n">>, <<" ">>, <<"[", "]">>, <<"{", " ", "}">>,
                  <<"[", "1", ",", " ", "1", "0", "]">>, <<"x">>, <<"[">>,
                  <<"[", "1", ",", "]">>}
    IN  texts \cup {XSSI \o t : t \in texts}
        \cup {XSSI \o XSSI \o <<"[", "]">>, <<" ">> \o XSSI \o <<"[", "]">>}

\* what client.request gives: a response, or None for an httpx.RequestError
Responses ==
    {None} \cup {Some([status_code |-> code, text |-> body]) :
                   code \in {200, 204, 302, 400, 401, 403, 404, 500},
                   body \in Bodies}

\* the responses given to the view command; the body of an answer that is
\* parsed stands for the JSON document whose content the command reads
ViewResponses ==
    {None,
     Some([status_code |-> 200, text |-> XSSI \o <<"{", "}">>]),
     Some([status_code |-> 200, text |-> XSSI \o <<"x">>]),
     Some([status_code |-> 401, text |-> <<"x">>]),
     Some([status_code |-> 404, text |-> <<"x">>]),
     Some([status_code |-> 500, text |-> XSSI \o <<"{", "}">>])}

\* for opt in options: params["o"] = opt
RECURSIVE SetOptions(_, _)
SetOptions(params, opts) ==
    IF Len(opts) = 0 THEN params
    ELSE SetOptions([key \in DOMAIN params \cup {"o"} |->
                        IF key = "o" THEN opts[1] ELSE params[key]],
                    Tail(opts))

\* lines 140-142 and 160-162: if options: for opt in options: ...
WithOptions(params, opts) ==
    IF opts # None /\ Len(opts[1]) > 0 THEN SetOptions(params, opts[1])
    ELSE params

\* the query string httpx builds from a params dict of scalars: one
\* key=value pair for each key
QueryPairs(params) == {<<key, params[key]>> : key \in DOMAIN params}

ClientFrame ==
    /\ UNCHANGED <<diffVars, reviewVars, viewVars, callerVars,
                   checkoutVars, pathVars>>

\* list_changes(query, options, limit)
ListChanges ==
    /\ api_call # None /\ api_result = None
    /\ api_call[1].name = "list_changes"
    /\ requests' = Append(requests,
                          Request("/changes/", None,
                                  WithOptions([key \in {"q", "n"} |->
                                                  IF key = "q" THEN "status:open"
                                                  ELSE "25"],
                                              api_call[1].options)))
    /\ \E resp \in Responses :
           /\ response' = Some(resp)
           /\ api_result' = Some(_make_request(resp))
    /\ UNCHANGED api_call
    /\ ClientFrame

\* get_change(change_id, options)
GetChange ==
    /\ api_call # None /\ api_result = None
    /\ api_call[1].name = "get_change"
    /\ requests' = Append(requests,
                          Request("/changes/{change_id}", None,
                                  WithOptions(<<>>, api_call[1].options)))
    /\ \E resp \in Responses :
           /\ response' = Some(resp)
           /\ api_result' = Some(_make_request(resp))
    /\ UNCHANGED api_call
    /\ ClientFrame

NextClient ==
    \/ ListChanges
    \/ GetChange

\* the query options a caller may ask for
ListChangesOptions == {"LABELS", "CURRENT_REVISION", "MESSAGES"}

InitClient ==
    /\ api_call \in
         {Some([name |-> name, options |-> opts]) :
            name \in {"list_changes", "get_change"},
            opts \in {None} \cup
                     {Some(o) : o \in UNION {[1..k -> ListChangesOptions] :
                                               k \in 0..MaxOptions}}}
    /\ api_result = None
    /\ requests = <<>>
    /\ response = None
    /\ DiffIdle
    /\ ReviewIdle
    /\ ViewIdle
    /\ CallerIdle
    /\ CheckoutIdle
    /\ PathIdle

SpecClient == InitClient /\ [][NextClient]_vars

(***************************************************************************)
(* The --parts option (src/src/gerrit_cli/utils/show_parts.py).            *)
(***************************************************************************)
PartMetadata == <<"m", "e", "t", "a", "d", "a", "t", "a">>
PartFiles == <<"f", "i", "l", "e", "s">>
PartDiff == <<"d", "i", "f", "f">>
PartMessages == <<"m", "e", "s", "s", "a", "g", "e", "s">>
PartComments == <<"c", "o", "m", "m", "e", "n", "t", "s">>
All == <<"a", "l", "l">>

\* the dict AVAILABLE_PARTS, as the list of its (full name, abbreviation) items
AVAILABLE_PARTS ==
    <<<<PartMetadata, <<"m">>>>,
      <<PartFiles, <<"f">>>>,
      <<PartDiff, <<"d">>>>,
      <<PartMessages, <<"m", "s", "g">>>>,
      <<PartComments, <<"c">>>>>>

\* list(AVAILABLE_PARTS.keys())
PartKeys == [k \in 1..Len(AVAILABLE_PARTS) |-> AVAILABLE_PARTS[k][1]]

DEFAULT_PARTS == <<PartMetadata, PartFiles, PartMessages, PartComments>>

\* s.split(sep) for a one-character sep
RECURSIVE split_on(_, _)
split_on(s, sep) ==
    IF sep \notin Chars(s) THEN <<s>>
    ELSE LET p == CHOOSE q \in 1..Len(s) :
                      s[q] = sep /\ \A r \in 1..(q - 1) : s[r] # sep
         IN  <<SubSeq(s, 1, p - 1)>> \o split_on(SubSeq(s, p + 1, Len(s)), sep)

\* abbr_to_full[item] for an item that is an abbreviation
abbr_to_full(item) ==
    LET k == CHOOSE j \in 1..Len(AVAILABLE_PARTS) : AVAILABLE_PARTS[j][2] = item
    IN  AVAILABLE_PARTS[k][1]

\* lines 54-76: the loop over the items; the result is the list of parts, or
\* the item the ValueError names
RECURSIVE ParseItems(_, _)
ParseItems(items, parts) ==
    IF Len(items) = 0 THEN [parts |-> Some(parts), error |-> None]
    ELSE LET item == RStrip(LStrip(items[1]))
         IN  IF Len(item) = 0 THEN ParseItems(Tail(items), parts)
             ELSE IF \E k \in 1..Len(AVAILABLE_PARTS) : AVAILABLE_PARTS[k][1] = item
             THEN ParseItems(Tail(items), Append(parts, item))
             ELSE IF \E k \in 1..Len(AVAILABLE_PARTS) : AVAILABLE_PARTS[k][2] = item
             THEN ParseItems(Tail(items), Append(parts, abbr_to_full(item)))
             ELSE [parts |-> None, error |-> Some(item)]

\* parse_parts_option without the special value "all"
parse_parts_option_NoAll(parts_str) ==
    ParseItems(split_on(parts_str, ","), <<>>)

parse_parts_option(parts_str) ==
    IF parts_str = All THEN [parts |-> Some(PartKeys), error |-> None]
    ELSE ParseItems(split_on(parts_str, ","), <<>>)

\* get_parts_to_show: the parts list and the dict part -> bool, or the error
get_parts_to_show(opt) ==
    LET parsed == IF Truthy(opt) THEN parse_parts_option(opt[1])
                  ELSE [parts |-> Some(DEFAULT_PARTS), error |-> None]
    IN  IF parsed.error # None
        THEN [parts_list |-> None, show_parts |-> <<>>, error |-> parsed.error]
        ELSE [parts_list |-> parsed.parts,
              show_parts |->
                  [part \in {PartKeys[k] : k \in 1..Len(PartKeys)} |->
                      \E k \in 1..Len(parsed.parts[1]) : parsed.parts[1][k] = part],
              error |-> None]

(***************************************************************************)
(* The view command (src/src/gerrit_cli/commands/change.py).  The server   *)
(* answers each request with a status and, when the status is 200, with    *)
(* data drawn from small sets: a change with its line counts and number of *)
(* messages, a list of file paths, the paths that have comments.           *)
(***************************************************************************)
max_lines == 1000

Changes ==
    {[insertions |-> 600, deletions |-> del, messages |-> msgs] :
       del \in {400, 401}, msgs \in {0, 1}}

FileLists ==
    {<<>>, <<"/COMMIT_MSG", "a.py">>, <<"a.py", "/MERGE_LIST", "b.py">>}

CommentedLists == {<<>>, <<"a.py">>}

\* the options get_change_detail passes to get_change
DetailOptions ==
    <<"CURRENT_REVISION", "MESSAGES", "DETAILED_LABELS", "DETAILED_ACCOUNTS">>

ViewExit1 ==
    /\ view_exit' = Some(1)
    /\ vpc' = "done"

ViewFrame ==
    /\ UNCHANGED <<parts_option, output_format>>
    /\ UNCHANGED <<diffVars, reviewVars, api_call, api_result, callerVars,
                   checkoutVars, pathVars>>

\* line 155: show_parts = get_parts_to_show(parts), and lines 220-223
ViewStart ==
    /\ vpc = "start"
    /\ LET got == get_parts_to_show(parts_option)
       IN  /\ parts_list' = got.parts_list
           /\ show_parts' = got.show_parts
           /\ error' = got.error
           /\ IF got.error # None THEN ViewExit1
              ELSE vpc' = "detail" /\ view_exit' = view_exit
    /\ UNCHANGED <<change, files_data, diffs_data, comments_data, files, diffs,
                   fetched, output, requests, response>>
    /\ ViewFrame

\* line 159: change = client.get_change_detail(change_id)
GetChangeDetail ==
    /\ vpc = "detail"
    /\ requests' = Append(requests,
                          Request("/changes/{change_id}", None,
                                  WithOptions(<<>>, Some(DetailOptions))))
    /\ \E resp \in ViewResponses :
           /\ response' = Some(resp)
           /\ IF Raised(resp) = None
              THEN /\ \E c \in Changes : change' = Some(c)
                   /\ vpc' = "files" /\ view_exit' = view_exit
              ELSE change' = change /\ ViewExit1
    /\ UNCHANGED <<parts_list, error, show_parts, files_data, diffs_data,
                   comments_data, files, diffs, fetched, output>>
    /\ ViewFrame

\* lines 167-168: the file list, wanted for the files part or the diff part
GetChangeFiles ==
    /\ vpc = "files"
    /\ show_parts[PartFiles] \/ show_parts[PartDiff]
    /\ requests' = Append(requests,
                          Request("/changes/{change_id}/revisions/current/files/",
                                  None, <<>>))
    /\ \E resp \in ViewResponses :
           /\ response' = Some(resp)
           /\ IF Raised(resp) = None
              THEN /\ \E data \in FileLists : files_data' = Some(data)
                   /\ vpc' = "diff" /\ view_exit' = view_exit
              ELSE files_data' = files_data /\ ViewExit1
    /\ UNCHANGED <<parts_list, error, show_parts, change, diffs_data,
                   comments_data, files, diffs, fetched, output>>
    /\ ViewFrame

\* line 167: neither files nor diff is shown
SkipFiles ==
    /\ vpc = "files"
    /\ ~(show_parts[PartFiles] \/ show_parts[PartDiff])
    /\ vpc' = "diff"
    /\ UNCHANGED <<parts_list, error, show_parts, change, files_data,
                   diffs_data, comments_data, files, diffs, fetched, output,
                   view_exit, requests, response>>
    /\ ViewFrame

total_lines == change[1].insertions + change[1].deletions

\* lines 171-183: the diff is too large and is not fetched
DiffTooLarge ==
    /\ vpc = "diff"
    /\ show_parts[PartDiff]
    /\ total_lines > max_lines
    /\ show_parts' = [show_parts EXCEPT ![PartDiff] = FALSE]
    /\ vpc' = "comments"
    /\ UNCHANGED <<parts_list, error, change, files_data, diffs_data,
                   comments_data, files, diffs, fetched, output, view_exit,
                   requests, response>>
    /\ ViewFrame

\* GetAllDiffs whatever the size of the change
GetAllDiffs_AnySize ==
    /\ vpc = "diff"
    /\ show_parts[PartDiff]
    /\ requests' = Append(requests,
                          Request("/changes/{change_id}/revisions/current/files/",
                                  None, <<>>))
    /\ \E resp \in ViewResponses :
           /\ response' = Some(resp)
           /\ IF Raised(resp) = None
              THEN /\ \E data \in FileLists : files' = data
                   /\ vpc' = "diffs" /\ view_exit' = view_exit
              ELSE files' = files /\ ViewExit1
    /\ diffs' = <<>>
    /\ fetched' = 0
    /\ UNCHANGED <<parts_list, error, show_parts, change, files_data,
                   diffs_data, comments_data, output>>
    /\ ViewFrame

\* line 185 and api.py 294-295: get_all_diffs asks for the file list
GetAllDiffs ==
    /\ vpc = "diff"
    /\ show_parts[PartDiff]
    /\ ~(total_lines > max_lines)
    /\ requests' = Append(requests,
                          Request("/changes/{change_id}/revisions/current/files/",
                                  None, <<>>))
    /\ \E resp \in ViewResponses :
           /\ response' = Some(resp)
           /\ IF Raised(resp) = None
              THEN /\ \E data \in FileLists : files' = data
                   /\ vpc' = "diffs" /\ view_exit' = view_exit
              ELSE files' = files /\ ViewExit1
    /\ diffs' = <<>>
    /\ fetched' = 0
    /\ UNCHANGED <<parts_list, error, show_parts, change, files_data,
                   diffs_data, comments_data, output>>
    /\ ViewFrame

\* the path of the current iteration of the loop of get_all_diffs
file_path == files[fetched + 1]

\* api.py 299-300: the commit message and the merge list have no diff
SkipSpecialFile ==
    /\ vpc = "diffs"
    /\ fetched < Len(files)
    /\ file_path \in {"/COMMIT_MSG", "/MERGE_LIST"}
    /\ fetched' = fetched + 1
    /\ UNCHANGED <<parts_list, error, show_parts, change, files_data,
                   diffs_data, comments_data, files, diffs, vpc, output,
                   view_exit, requests, response>>
    /\ ViewFrame

\* GetFileDiff letting the exception of a failed request out of the loop
GetFileDiff_StopsOnError ==
    /\ vpc = "diffs"
    /\ fetched < Len(files)
    /\ file_path \notin {"/COMMIT_MSG", "/MERGE_LIST"}
    /\ requests' = Append(requests,
                          Request("/changes/{change_id}/revisions/current/files/{path}/diff",
                                  Some(file_path),
                                  [key \in {"context"} |-> "5"]))
    /\ \E resp \in ViewResponses :
           /\ response' = Some(resp)
           /\ IF Raised(resp) = None
              THEN /\ diffs' = Append(diffs, file_path)
                   /\ fetched' = fetched + 1
                   /\ UNCHANGED <<vpc, view_exit>>
              ELSE /\ UNCHANGED <<diffs, fetched>>
                   /\ ViewExit1
    /\ UNCHANGED <<parts_list, error, show_parts, change, files_data,
                   diffs_data, comments_data, files, output>>
    /\ ViewFrame

\* api.py 302-308: the diff of one file; a failed request is passed over
GetFileDiff ==
    /\ vpc = "diffs"
    /\ fetched < Len(files)
    /\ file_path \notin {"/COMMIT_MSG", "/MERGE_LIST"}
    /\ requests' = Append(requests,
                          Request("/changes/{change_id}/revisions/current/files/{path}/diff",
                                  Some(file_path),
                                  [key \in {"context"} |-> "5"]))
    /\ \E resp \in ViewResponses :
           /\ response' = Some(resp)
           /\ diffs' = IF Raised(resp) = None THEN Append(diffs, file_path)
                       ELSE diffs
    /\ fetched' = fetched + 1
    /\ UNCHANGED <<parts_list, error, show_parts, change, files_data,
                   diffs_data, comments_data, files, vpc, output, view_exit>>
    /\ ViewFrame

\* api.py 310: return diffs
ReturnDiffs ==
    /\ vpc = "diffs"
    /\ fetched = Len(files)
    /\ diffs_data' = Some(diffs)
    /\ vpc' = "comments"
    /\ UNCHANGED <<parts_list, error, show_parts, change, files_data,
                   comments_data, files, diffs, fetched, output, view_exit,
                   requests, response>>
    /\ ViewFrame

\* line 171: the diff is not shown
SkipDiff ==
    /\ vpc = "diff"
    /\ ~show_parts[PartDiff]
    /\ vpc' = "comments"
    /\ UNCHANGED <<parts_list, error, show_parts, change, files_data,
                   diffs_data, comments_data, files, diffs, fetched, output,
                   view_exit, requests, response>>
    /\ ViewFrame

\* GetChangeComments whatever the parts shown
GetChangeComments_Always ==
    /\ vpc = "comments"
    /\ requests' = Append(requests,
                          Request("/changes/{change_id}/comments", None, <<>>))
    /\ \E resp \in ViewResponses :
           /\ response' = Some(resp)
           /\ IF Raised(resp) = None
              THEN /\ \E data \in CommentedLists : comments_data' = Some(data)
                   /\ vpc' = "output" /\ view_exit' = view_exit
              ELSE comments_data' = comments_data /\ ViewExit1
    /\ UNCHANGED <<parts_list, error, show_parts, change, files_data,
                   diffs_data, files, diffs, fetched, output>>
    /\ ViewFrame

\* lines 188-189: the comments
GetChangeComments ==
    /\ vpc = "comments"
    /\ show_parts[PartComments]
    /\ requests' = Append(requests,
                          Request("/changes/{change_id}/comments", None, <<>>))
    /\ \E resp \in ViewResponses :
           /\ response' = Some(resp)
           /\ IF Raised(resp) = None
              THEN /\ \E data \in CommentedLists : comments_data' = Some(data)
                   /\ vpc' = "output" /\ view_exit' = view_exit
              ELSE comments_data' = comments_data /\ ViewExit1
    /\ UNCHANGED <<parts_list, error, show_parts, change, files_data,
                   diffs_data, files, diffs, fetched, output>>
    /\ ViewFrame

\* line 188: the comments are not shown
SkipComments ==
    /\ vpc = "comments"
    /\ ~show_parts[PartComments]
    /\ vpc' = "output"
    /\ UNCHANGED <<parts_list, error, show_parts, change, files_data,
                   diffs_data, comments_data, files, diffs, fetched, output,
                   view_exit, requests, response>>
    /\ ViewFrame

\* a section that is printed when cond holds
Shown(cond, name) == IF cond THEN <<name>> ELSE <<>>

OutputFrame ==
    /\ view_exit' = Some(0)
    /\ vpc' = "done"
    /\ UNCHANGED <<parts_list, error, show_parts, change, files_data,
                   diffs_data, comments_data, files, diffs, fetched, requests, response>>
    /\ ViewFrame

\* lines 192-206: the keys of the JSON document
OutputJson ==
    /\ vpc = "output"
    /\ output_format = "json"
    /\ output' = Some(<<"change">>
                      \o Shown(Truthy(files_data), "files")
                      \o Shown(Truthy(diffs_data), "diffs")
                      \o Shown(Truthy(comments_data), "comments"))
    /\ OutputFrame

\* lines 207-218 and table.py 189-226: the panels of format_change_complete
OutputTable ==
    /\ vpc = "output"
    /\ output_format # "json"
    /\ output' = Some(Shown(show_parts[PartMetadata], "metadata")
                      \o Shown(show_parts[PartFiles] /\ Truthy(files_data),
                               "files")
                      \o Shown(show_parts[PartComments] /\ Truthy(comments_data),
                               "comments")
                      \o Shown(show_parts[PartMessages] /\ change[1].messages > 0,
                               "messages")
                      \o Shown(show_parts[PartDiff] /\ Truthy(diffs_data),
                               "diff"))
    /\ OutputFrame

NextView ==
    \/ ViewStart
    \/ GetChangeDetail
    \/ GetChangeFiles
    \/ SkipFiles
    \/ DiffTooLarge
    \/ GetAllDiffs
    \/ SkipSpecialFile
    \/ GetFileDiff
    \/ ReturnDiffs
    \/ SkipDiff
    \/ GetChangeComments
    \/ SkipComments
    \/ OutputJson
    \/ OutputTable

(***************************************************************************)
(* Inputs of SpecView: --parts is absent, or at most MaxParts items joined *)
(* by commas, each item an abbreviation, a full name, a name within        *)
(* spaces, the empty item, an unknown item or "all".                       *)
(***************************************************************************)
PartItems ==
    {AVAILABLE_PARTS[k][1] : k \in 1..Len(AVAILABLE_PARTS)}
    \cup {AVAILABLE_PARTS[k][2] : k \in 1..Len(AVAILABLE_PARTS)}
    \cup {<<" ", "d", " ">>, <<>>, <<"x">>, All}

RECURSIVE JoinComma(_)
JoinComma(items) ==
    IF Len(items) = 1 THEN items[1]
    ELSE items[1] \o <<",">> \o JoinComma(Tail(items))

PartsOptions ==
    {None} \cup {Some(JoinComma(items)) :
                   items \in UNION {[1..k -> PartItems] : k \in 1..MaxParts}}

InitView ==
    /\ parts_option \in PartsOptions
    /\ output_format \in {"table", "json"}
    /\ parts_list = None
    /\ error = None
    /\ show_parts = <<>>
    /\ change = None
    /\ files_data = None
    /\ diffs_data = None
    /\ comments_data = None
    /\ files = <<>>
    /\ diffs = <<>>
    /\ fetched = 0
    /\ vpc = "start"
    /\ output = None
    /\ view_exit = None
    /\ DiffIdle
    /\ ReviewIdle
    /\ ClientIdle
    /\ CallerIdle
    /\ CheckoutIdle
    /\ PathIdle

SpecView == InitView /\ [][NextView]_vars

(***************************************************************************)
(* The checkout command (commands/change.py, lines 282-517) and the git    *)
(* helpers it calls (utils/helpers.py).  The repository is its local       *)
(* branches, the branch HEAD is on and the stash; what git and the user    *)
(* answer beyond that is chosen at each step.                              *)
(***************************************************************************)
\* f"{n:02d}" of a non-negative int
format_02d(n) == IF Len(Str(n)) < 2 THEN <<"0">> \o Str(n) ELSE Str(n)

\* one call of checkout: the helper, its argument and whether it succeeded
Step(op, arg, ok) == [op |-> op, arg |-> arg, ok |-> ok]

\* sys.exit(code), or the return of the command for code 0
CheckoutExit(code) ==
    /\ checkout_exit' = Some(code)
    /\ cpc' = "done"

CheckoutFrame ==
    /\ UNCHANGED <<branch, force, no_checkout, stash>>
    /\ UNCHANGED <<diffVars, reviewVars, viewVars, api_call, api_result,
                   callerVars, pathVars>>

\* lines 325-334: check_git_repository()
CheckGitRepository ==
    /\ cpc = "start"
    /\ \E ok \in BOOLEAN :
           /\ steps' = Append(steps, Step("check_git_repository", <<>>, ok))
           /\ IF ok THEN cpc' = "get_change" /\ checkout_exit' = checkout_exit
              ELSE CheckoutExit(1)
    /\ UNCHANGED <<branches, HEAD, stashed, change_info, ref_spec, branch_name,
                   requests, response>>
    /\ CheckoutFrame

\* lines 336-339 and 512-517: client.get_change(change_id, options); the
\* document is a change, with its number, its current revision and the patch
\* set number of that revision, or ChangeDetail.model_validate raises
GetChangeInfo ==
    /\ cpc = "get_change"
    /\ requests' = Append(requests,
                          Request("/changes/{change_id}", None,
                                  WithOptions(<<>>,
                                              Some(<<"CURRENT_REVISION",
                                                     "DOWNLOAD_COMMANDS",
                                                     "DETAILED_ACCOUNTS">>))))
    /\ \E resp \in ViewResponses :
           /\ response' = Some(resp)
           /\ \E c \in {None}
                       \cup {Some([number |-> n, current_revision |-> None,
                                   patch_set |-> None]) : n \in {7, 12345}}
                       \cup {Some([number |-> n,
                                   current_revision |-> Some("sha"),
                                   patch_set |-> Some(ps)]) :
                               n \in {7, 1200, 12345}, ps \in {1, 2}} :
                  IF Raised(resp) = None /\ c # None
                  THEN /\ change_info' = c
                       /\ steps' = Append(steps, Step("get_change", <<>>, TRUE))
                       /\ cpc' = "remote" /\ checkout_exit' = checkout_exit
                  ELSE /\ change_info' = change_info
                       /\ steps' = Append(steps, Step("get_change", <<>>, FALSE))
                       /\ CheckoutExit(1)
    /\ UNCHANGED <<branches, HEAD, stashed, ref_spec, branch_name>>
    /\ CheckoutFrame

\* lines 341-382: the origin remote; click.confirm is asked when the remote
\* is missing or its URL does not hold the project, and is answered yes or
\* no or raises click.Abort
CheckRemote ==
    /\ cpc = "remote"
    /\ \E answer \in {"not asked", "yes", "no", "Abort"} :
           /\ steps' = IF answer = "not asked" THEN steps
                       ELSE Append(steps,
                                   Step("confirm", <<answer>>, answer = "yes"))
           /\ IF answer \in {"not asked", "yes"}
              THEN cpc' = "verify" /\ checkout_exit' = checkout_exit
              ELSE IF answer = "no" THEN CheckoutExit(0)
              ELSE CheckoutExit(1)
    /\ UNCHANGED <<branches, HEAD, stashed, change_info, ref_spec, branch_name,
                   requests, response>>
    /\ CheckoutFrame

\* lines 384-408: the current revision, the ref and the branch name
VerifyChange ==
    /\ cpc = "verify"
    /\ steps' = Append(steps, Step("current_revision", <<>>,
                                   change_info[1].current_revision # None))
    /\ IF change_info[1].current_revision = None
       THEN /\ CheckoutExit(1)
            /\ UNCHANGED <<ref_spec, branch_name>>
       ELSE LET change_number == change_info[1].number
                last_two == change_number % 100
            IN  /\ ref_spec' = Some(<<"r", "e", "f", "s", "/", "c", "h", "a",
                                      "n", "g", "e", "s", "/">>
                                    \o format_02d(last_two)
                                    \o <<"/">> \o Str(change_number)
                                    \o <<"/", "1">>)
                /\ branch_name' = IF branch = None
                                  THEN Some(<<"r", "e", "v", "i", "e", "w", "/",
                                              "c", "h", "a", "n", "g", "e",
                                              "-">> \o Str(change_number))
                                  ELSE branch
                /\ cpc' = "branch" /\ checkout_exit' = checkout_exit
    /\ UNCHANGED <<branches, HEAD, stashed, change_info, requests, response>>
    /\ CheckoutFrame

\* helpers.py 171-181: git rev-parse --verify succeeds for a branch, and may
\* succeed for another revision of that name
branch_exists(name) == IF name \in branches THEN {TRUE} ELSE {TRUE, FALSE}

\* lines 411 and 427: no branch of that name
BranchFree ==
    /\ cpc = "branch"
    /\ FALSE \in branch_exists(branch_name[1])
    /\ steps' = Append(steps, Step("branch_exists", branch_name[1], FALSE))
    /\ cpc' = "workdir"
    /\ UNCHANGED <<branches, HEAD, stashed, change_info, ref_spec, branch_name,
                   checkout_exit, requests, response>>
    /\ CheckoutFrame

\* lines 411-412 and 422-425: the branch exists and --force is not given
BranchTaken ==
    /\ cpc = "branch"
    /\ TRUE \in branch_exists(branch_name[1])
    /\ ~force
    /\ steps' = Append(steps, Step("branch_exists", branch_name[1], TRUE))
    /\ CheckoutExit(1)
    /\ UNCHANGED <<branches, HEAD, stashed, change_info, ref_spec, branch_name,
                   requests, response>>
    /\ CheckoutFrame

\* ForceDelete without the look at the current branch
ForceDelete_AnyBranch ==
    /\ cpc = "branch"
    /\ TRUE \in branch_exists(branch_name[1])
    /\ force
    /\ \E ok \in (IF branch_name[1] \in branches THEN {TRUE, FALSE}
                  ELSE {FALSE}) :
           /\ steps' = steps
                       \o <<Step("branch_exists", branch_name[1], TRUE),
                            Step("delete_branch", branch_name[1], ok)>>
           /\ IF ok
              THEN /\ branches' = branches \ {branch_name[1]}
                   /\ cpc' = "workdir" /\ checkout_exit' = checkout_exit
              ELSE branches' = branches /\ CheckoutExit(1)
    /\ UNCHANGED <<HEAD, stashed, change_info, ref_spec, branch_name,
                   requests, response>>
    /\ CheckoutFrame

\* lines 411-421 and helpers.py 184-198: the branch exists and --force is
\* given; git branch -D deletes a branch that is there and is not checked out
ForceDelete ==
    /\ cpc = "branch"
    /\ TRUE \in branch_exists(branch_name[1])
    /\ force
    /\ LET current == HEAD
       IN  IF current = branch_name
           THEN /\ steps' = Append(steps,
                                   Step("branch_exists", branch_name[1], TRUE))
                /\ branches' = branches
                /\ CheckoutExit(1)
           ELSE \E ok \in (IF branch_name[1] \in branches THEN {TRUE, FALSE}
                           ELSE {FALSE}) :
                    /\ steps' = steps
                                \o <<Step("branch_exists", branch_name[1], TRUE),
                                     Step("delete_branch", branch_name[1], ok)>>
                    /\ IF ok
                       THEN /\ branches' = branches \ {branch_name[1]}
                            /\ cpc' = "workdir"
                            /\ checkout_exit' = checkout_exit
                       ELSE branches' = branches /\ CheckoutExit(1)
    /\ UNCHANGED <<HEAD, stashed, change_info, ref_spec, branch_name,
                   requests, response>>
    /\ CheckoutFrame

\* line 428: --no-checkout leaves the working directory alone
SkipWorkingDirectory ==
    /\ cpc = "workdir"
    /\ no_checkout
    /\ cpc' = "fetch"
    /\ UNCHANGED <<branches, HEAD, stashed, change_info, ref_spec, branch_name,
                   steps, checkout_exit, requests, response>>
    /\ CheckoutFrame

\* lines 428-431: the working directory is clean
WorkingDirectoryClean ==
    /\ cpc = "workdir"
    /\ ~no_checkout
    /\ steps' = Append(steps, Step("check_working_directory_clean", <<>>, TRUE))
    /\ cpc' = "fetch"
    /\ UNCHANGED <<branches, HEAD, stashed, change_info, ref_spec, branch_name,
                   checkout_exit, requests, response>>
    /\ CheckoutFrame

\* lines 428-466: uncommitted changes; without --stash/--no-stash the user
\* is asked and chooses 1, 2 or 3, or click.prompt raises click.Abort
UncommittedChanges ==
    /\ cpc = "workdir"
    /\ ~no_checkout
    /\ \E choice \in (IF stash = None THEN {"1", "2", "3", "Abort"}
                      ELSE {"not asked"}) :
           LET status == Step("check_working_directory_clean", <<>>, FALSE)
               asked == IF choice = "not asked" THEN <<>>
                        ELSE <<Step("prompt", <<choice>>, choice # "Abort")>>
               should_stash == IF stash # None THEN stash[1] ELSE choice = "1"
           IN  IF choice = "2"
               THEN /\ steps' = steps \o <<status>> \o asked
                    /\ stashed' = stashed
                    /\ CheckoutExit(0)
               ELSE IF choice = "Abort"
               THEN /\ steps' = steps \o <<status>> \o asked
                    /\ stashed' = stashed
                    /\ CheckoutExit(1)
               ELSE IF should_stash
               THEN \E ok \in BOOLEAN :
                        /\ steps' = steps \o <<status>> \o asked
                                    \o <<Step("stash_changes", <<>>, ok)>>
                        /\ IF ok
                           THEN /\ stashed' = stashed + 1
                                /\ cpc' = "fetch"
                                /\ checkout_exit' = checkout_exit
                           ELSE stashed' = stashed /\ CheckoutExit(1)
               ELSE /\ steps' = steps \o <<status>> \o asked
                    /\ stashed' = stashed
                    /\ cpc' = "fetch" /\ checkout_exit' = checkout_exit
    /\ UNCHANGED <<branches, HEAD, change_info, ref_spec, branch_name,
                   requests, response>>
    /\ CheckoutFrame

\* FetchChange going on after a fetch that failed
FetchChange_IgnoresFailure ==
    /\ cpc = "fetch"
    /\ \E ok \in BOOLEAN :
           steps' = Append(steps, Step("fetch_change_ref", ref_spec[1], ok))
    /\ cpc' = "checkout"
    /\ UNCHANGED <<branches, HEAD, stashed, change_info, ref_spec, branch_name,
                   checkout_exit, requests, response>>
    /\ CheckoutFrame

\* lines 468-474 and helpers.py 122-135: git fetch origin <ref_spec>
FetchChange ==
    /\ cpc = "fetch"
    /\ \E ok \in BOOLEAN :
           /\ steps' = Append(steps, Step("fetch_change_ref", ref_spec[1], ok))
           /\ IF ok THEN cpc' = "checkout" /\ checkout_exit' = checkout_exit
              ELSE CheckoutExit(1)
    /\ UNCHANGED <<branches, HEAD, stashed, change_info, ref_spec, branch_name,
                   requests, response>>
    /\ CheckoutFrame

\* lines 477 and 496-510: --no-checkout ends after the fetch
FetchOnly ==
    /\ cpc = "checkout"
    /\ no_checkout
    /\ CheckoutExit(0)
    /\ UNCHANGED <<branches, HEAD, stashed, change_info, ref_spec, branch_name,
                   steps, requests, response>>
    /\ CheckoutFrame

\* lines 477-484 and helpers.py 159-168: git checkout FETCH_HEAD
CheckoutFetchHead ==
    /\ cpc = "checkout"
    /\ ~no_checkout
    /\ \E ok \in BOOLEAN :
           /\ steps' = Append(steps, Step("checkout_fetch_head", <<>>, ok))
           /\ IF ok
              THEN /\ HEAD' = None
                   /\ cpc' = "create" /\ checkout_exit' = checkout_exit
              ELSE HEAD' = HEAD /\ CheckoutExit(1)
    /\ UNCHANGED <<branches, stashed, change_info, ref_spec, branch_name,
                   requests, response>>
    /\ CheckoutFrame

\* lines 486-510 and helpers.py 138-156: git checkout -b <branch_name>, which
\* fails when there is a branch of that name
CreateBranch ==
    /\ cpc = "create"
    /\ \E ok \in (IF branch_name[1] \in branches THEN {FALSE}
                  ELSE {TRUE, FALSE}) :
           /\ steps' = Append(steps, Step("checkout_branch", branch_name[1], ok))
           /\ IF ok
              THEN /\ branches' = branches \cup {branch_name[1]}
                   /\ HEAD' = branch_name
                   /\ CheckoutExit(0)
              ELSE /\ UNCHANGED <<branches, HEAD>>
                   /\ CheckoutExit(1)
    /\ UNCHANGED <<stashed, change_info, ref_spec, branch_name, requests,
                   response>>
    /\ CheckoutFrame

NextCheckout ==
    \/ CheckGitRepository
    \/ GetChangeInfo
    \/ CheckRemote
    \/ VerifyChange
    \/ BranchFree
    \/ BranchTaken
    \/ ForceDelete
    \/ SkipWorkingDirectory
    \/ WorkingDirectoryClean
    \/ UncommittedChanges
    \/ FetchChange
    \/ FetchOnly
    \/ CheckoutFetchHead
    \/ CreateBranch

\* the repository has main and may have the branch of -b and review/change-7
InitCheckout ==
    /\ branch \in {None, Some(<<"b">>)}
    /\ force \in BOOLEAN
    /\ no_checkout \in BOOLEAN
    /\ stash \in {None, Some(TRUE), Some(FALSE)}
    /\ branches \in
         {{<<"m", "a", "i", "n">>} \cup some :
            some \in SUBSET {<<"b">>,
                             <<"r", "e", "v", "i", "e", "w", "/", "c", "h", "a",
                               "n", "g", "e", "-", "7">>}}
    /\ HEAD \in {None} \cup {Some(name) : name \in branches}
    /\ stashed = 0
    /\ change_info = None
    /\ ref_spec = None
    /\ branch_name = None
    /\ steps = <<>>
    /\ cpc = "start"
    /\ checkout_exit = None
    /\ DiffIdle
    /\ ReviewIdle
    /\ ViewIdle
    /\ ClientIdle
    /\ CallerIdle
    /\ PathIdle

SpecCheckout == InitCheckout /\ [][NextCheckout]_vars

(***************************************************************************)
(* shorten_path (utils/helpers.py, lines 244-294).  What a call gives is   *)
(* the string returned, or the exception raised.                           *)
(***************************************************************************)
\* shorten_path(path, max_length)
shorten_path(path_, max_length_) ==
    LET Returns(str) == [raised |-> None, value |-> Some(str)]
        \* "/".join(xs)
        RECURSIVE join(_)
        join(xs) == IF Len(xs) = 0 THEN <<>>
                    ELSE IF Len(xs) = 1 THEN xs[1]
                    ELSE xs[1] \o <<"/">> \o join(Tail(xs))
        \* lines 268-275: the loop over reversed(parts[1:-1])
        RECURSIVE middle(_, _)
        middle(ps, remaining) ==
            IF Len(ps) > 0 /\ Len(ps[Len(ps)]) + 1 <= remaining
            THEN Append(middle(SubSeq(ps, 1, Len(ps) - 1),
                               remaining - (Len(ps[Len(ps)]) + 1)),
                        ps[Len(ps)])
            ELSE <<>>
        parts == split_on(path_, "/")
        first == parts[1]
        last == parts[Len(parts)]
        fixed_parts_len == Len(first) + 5 + Len(last)
        middle_parts == middle(SubSeq(parts, 2, Len(parts) - 1),
                               max_length_ - fixed_parts_len)
        \* p[0] of an empty p raises IndexError
        indexable == \A k \in 1..(Len(parts) - 1) : Len(parts[k]) > 0
        compressed_parts == [k \in 1..(Len(parts) - 1) |-> <<parts[k][1]>>]
        compressed_prefix == join(compressed_parts) \o <<"/">>
    IN  IF Len(path_) <= max_length_ THEN Returns(path_)
        ELSE IF max_length_ < 5
        THEN IF max_length_ > 3
             THEN Returns(<<".", ".", ".">> \o SliceTail(path_, max_length_ - 3))
             ELSE Returns(<<".", ".", ".">>)
        ELSE IF Len(parts) >= 3 /\ fixed_parts_len <= max_length_
        THEN IF Len(middle_parts) > 0
             THEN Returns(first \o <<"/", ".", ".", ".", "/">>
                          \o join(middle_parts) \o <<"/">> \o last)
             ELSE Returns(first \o <<"/", ".", ".", ".", "/">> \o last)
        ELSE IF Len(parts) >= 2 /\ ~indexable
        THEN [raised |-> Some("IndexError"), value |-> None]
        ELSE IF /\ Len(parts) >= 2
                /\ Len(compressed_prefix) + Len(last) <= max_length_
        THEN Returns(compressed_prefix \o last)
        ELSE IF Len(last) + 4 <= max_length_
        THEN Returns(<<".", ".", ".", "/">> \o last)
        ELSE Returns(<<".", ".", ".">> \o SliceTail(last, max_length_ - 3))

\* a call of shorten_path
Shorten ==
    /\ shortened = None
    /\ shortened' = Some(shorten_path(path, max_length))
    /\ UNCHANGED <<path, max_length>>
    /\ UNCHANGED <<diffVars, reviewVars, viewVars, clientVars, callerVars,
                   checkoutVars>>

\* paths of names and slashes, and the widths a panel may leave to a path
InitPath ==
    /\ path \in UNION {[1..n -> {"a", "/"}] : n \in 0..MaxPathLen}
    /\ max_length \in 3..MaxPathLen
    /\ shortened = None
    /\ DiffIdle
    /\ ReviewIdle
    /\ ViewIdle
    /\ ClientIdle
    /\ CallerIdle
    /\ CheckoutIdle

SpecPath == InitPath /\ [][Shorten]_vars

(***************************************************************************)
(* Vocabulary of the properties of the diff converter.  A segment is       *)
(* classified by the keys it has; an output line by its first character.   *)
(***************************************************************************)
SegKind(s) ==
    IF DOMAIN s = {"ab"} THEN "Context"
    ELSE IF DOMAIN s = {"skip"} THEN "Skip"
    ELSE IF DOMAIN s = {"a", "b"} THEN "Replace"
    ELSE IF DOMAIN s = {"a"} THEN "Removed"
    ELSE IF DOMAIN s = {"b"} THEN "Added"
    ELSE "Malformed"

IsChangeSeg(s) == SegKind(s) \in {"Added", "Removed", "Replace"}

DigitVal(c) == CHOOSE d \in 0..9 : DigitChar[d + 1] = c

\* value of a non-empty sequence of decimal digits
RECURSIVE DecVal(_)
DecVal(ds) ==
    IF Len(ds) = 0 THEN 0
    ELSE DecVal(SubSeq(ds, 1, Len(ds) - 1)) * 10 + DigitVal(ds[Len(ds)])

OutKind(o) ==
    IF o[1] = " " THEN "Context"
    ELSE IF o[1] = "-" THEN "Removed"
    ELSE IF o[1] = "+" THEN "Added"
    ELSE IF o[1] = "@@ ... skipped " /\ o[Len(o)] = " lines ... @@"
    THEN "CollapsedMarker"
    ELSE "Other"

OutText(o) == Tail(o)

IsMarker(o, n) ==
    /\ OutKind(o) = "CollapsedMarker"
    /\ Len(o) >= 3
    /\ \A k \in 2..(Len(o) - 1) : o[k] \in {DigitChar[d] : d \in 1..10}
    /\ DecVal(SubSeq(o, 2, Len(o) - 1)) = n

\* out is the lines xs, in order, each of the given kind
IsRun(out, kind, xs) ==
    /\ Len(out) = Len(xs)
    /\ \A k \in 1..Len(xs) : OutKind(out[k]) = kind /\ OutText(out[k]) = xs[k]

\* the segment handled by the next iteration, and its neighbours
Seg == content_sections[i + 1]
PrecededByChange == i + 1 > 1 /\ IsChangeSeg(content_sections[i])
FollowedByChange ==
    i + 1 < Len(content_sections) /\ IsChangeSeg(content_sections[i + 2])

\* an iteration of the loop is taken in this step
Iteration == pc = "loop" /\ i < Len(content_sections) /\ i' = i + 1

\* the iteration only appends to lines; Chunk is what it appends
Appends == Len(lines') >= Len(lines) /\ SubSeq(lines', 1, Len(lines)) = lines
Chunk == SubSeq(lines', Len(lines) + 1, Len(lines'))

FirstN(xs, n) == [k \in 1..n |-> xs[k]]
LastN(xs, n) == [k \in 1..n |-> xs[Len(xs) - n + k]]

\* the segment handled by the last iteration (i >= 1), and its neighbours
Done == content_sections[i]
DoneAfterChange == i > 1 /\ IsChangeSeg(content_sections[i - 1])
DoneBeforeChange ==
    i < Len(content_sections) /\ IsChangeSeg(content_sections[i + 1])

(***************************************************************************)
(* C1.  Between case: for N >= 1, a Context segment whose two neighbours   *)
(* are change segments outputs, when its length L exceeds 2N, its first N  *)
(* lines, one collapsed marker carrying L - 2N and its last N lines; when  *)
(* L <= 2N it outputs all L lines in order and no marker.                  *)
(***************************************************************************)
C1_Step ==
    (/\ Iteration
     /\ SegKind(Seg) = "Context"
     /\ context >= 1
     /\ PrecededByChange /\ FollowedByChange)
    => /\ Appends
       /\ LET L == Len(Seg.ab)
              N == context
          IN  IF L > 2 * N
              THEN /\ Len(Chunk) = 2 * N + 1
                   /\ IsRun(SubSeq(Chunk, 1, N), "Context", FirstN(Seg.ab, N))
                   /\ IsMarker(Chunk[N + 1], L - 2 * N)
                   /\ IsRun(SubSeq(Chunk, N + 2, 2 * N + 1), "Context",
                            LastN(Seg.ab, N))
              ELSE IsRun(Chunk, "Context", Seg.ab)

C1_Between == [][C1_Step]_vars

C1_Witness ==
    /\ i >= 1 /\ context >= 1
    /\ SegKind(Done) = "Context"
    /\ DoneAfterChange /\ DoneBeforeChange
    /\ Len(Done.ab) > 2 * context
    /\ Len(lines) >= 2 * context + 1
    /\ IsMarker(lines[Len(lines) - context], Len(Done.ab) - 2 * context)

(***************************************************************************)
(* C2.  One-sided case: for N >= 1, a Context segment with a change        *)
(* segment on exactly one side outputs, when its length L exceeds N, the   *)
(* N lines nearest the change and one collapsed marker carrying L - N on   *)
(* the side away from the change; when L <= N it outputs all L lines in    *)
(* order and no marker.                                                    *)
(***************************************************************************)
C2_Step ==
    (/\ Iteration
     /\ SegKind(Seg) = "Context"
     /\ context >= 1
     /\ PrecededByChange # FollowedByChange)
    => /\ Appends
       /\ LET L == Len(Seg.ab)
              N == context
          IN  IF L > N
              THEN /\ Len(Chunk) = N + 1
                   /\ IF PrecededByChange
                      THEN /\ IsRun(SubSeq(Chunk, 1, N), "Context",
                                    FirstN(Seg.ab, N))
                           /\ IsMarker(Chunk[N + 1], L - N)
                      ELSE /\ IsMarker(Chunk[1], L - N)
                           /\ IsRun(SubSeq(Chunk, 2, N + 1), "Context",
                                    LastN(Seg.ab, N))
              ELSE IsRun(Chunk, "Context", Seg.ab)

C2_OneSided == [][C2_Step]_vars

C2_Witness ==
    /\ i >= 1 /\ context >= 1
    /\ SegKind(Done) = "Context"
    /\ ~DoneAfterChange /\ DoneBeforeChange
    /\ Len(Done.ab) > context
    /\ Len(lines) = context + 1
    /\ IsMarker(lines[1], Len(Done.ab) - context)

(***************************************************************************)
(* C3.  Isolated case: for N >= 0, a Context segment with no change        *)
(* segment at i-1 or i+1 outputs, when its length L exceeds 2N, exactly    *)
(* one collapsed marker carrying L and no context line; when L <= 2N it    *)
(* outputs all L lines and no marker.                                      *)
(***************************************************************************)
C3_Step ==
    (/\ Iteration
     /\ SegKind(Seg) = "Context"
     /\ ~PrecededByChange /\ ~FollowedByChange)
    => /\ Appends
       /\ LET L == Len(Seg.ab)
          IN  IF L > 2 * context
              THEN Len(Chunk) = 1 /\ IsMarker(Chunk[1], L)
              ELSE IsRun(Chunk, "Context", Seg.ab)

C3_Isolated == [][C3_Step]_vars

C3_Witness ==
    /\ i >= 1
    /\ SegKind(Done) = "Context"
    /\ ~DoneAfterChange /\ ~DoneBeforeChange
    /\ Len(Done.ab) > 2 * context
    /\ Len(lines) >= 1
    /\ IsMarker(lines[Len(lines)], Len(Done.ab))

(***************************************************************************)
(* C4.  N = 0: every non-empty Context segment in the between, after or    *)
(* before position outputs no context line and exactly one collapsed       *)
(* marker carrying the full length of the run.                             *)
(***************************************************************************)
C4_Step ==
    (/\ Iteration
     /\ SegKind(Seg) = "Context"
     /\ context = 0
     /\ Len(Seg.ab) > 0
     /\ (PrecededByChange \/ FollowedByChange))
    => /\ Appends
       /\ Len(Chunk) = 1
       /\ IsMarker(Chunk[1], Len(Seg.ab))

C4_ZeroContext == [][C4_Step]_vars

(***************************************************************************)
(* C5.  Every line of an Added, Removed or Replace segment is output       *)
(* exactly once, with its kind and in its order; the removed lines of a    *)
(* Replace segment all precede its added lines.                            *)
(***************************************************************************)
C5_Step ==
    (Iteration /\ IsChangeSeg(Seg))
    => /\ Appends
       /\ LET rem == IF "a" \in DOMAIN Seg THEN Seg.a ELSE <<>>
              add == IF "b" \in DOMAIN Seg THEN Seg.b ELSE <<>>
          IN  /\ Len(Chunk) = Len(rem) + Len(add)
              /\ IsRun(SubSeq(Chunk, 1, Len(rem)), "Removed", rem)
              /\ IsRun(SubSeq(Chunk, Len(rem) + 1, Len(Chunk)), "Added", add)

C5_ChangesInFull == [][C5_Step]_vars

C5_Witness ==
    /\ i >= 1
    /\ SegKind(Done) = "Replace"
    /\ Len(lines) >= Len(Done.a) + Len(Done.b)
    /\ OutKind(lines[Len(lines) - Len(Done.b)]) = "Removed"
    /\ OutKind(lines[Len(lines)]) = "Added"
    /\ OutText(lines[Len(lines)]) = Done.b[Len(Done.b)]

(***************************************************************************)
(* C6.  A Skip segment outputs exactly one collapsed marker carrying its   *)
(* declared count, whatever N and its neighbours are; every iteration      *)
(* handles the next segment of the sequence and only appends to the        *)
(* output, so the output follows the order of the segments.                *)
(***************************************************************************)
C6_Step ==
    (pc = "loop" /\ (i' # i \/ lines' # lines))
    => /\ i < Len(content_sections)
       /\ i' = i + 1
       /\ content_sections' = content_sections
       /\ Appends
       /\ (SegKind(Seg) = "Skip"
           => Len(Chunk) = 1 /\ IsMarker(Chunk[1], Seg.skip))

C6_Skip == [][C6_Step]_vars

C6_Witness ==
    /\ i >= 2
    /\ SegKind(Done) = "Skip"
    /\ Len(lines) >= 2
    /\ IsMarker(lines[Len(lines)], Done.skip)
    /\ ~IsMarker(lines[Len(lines) - 1], Done.skip)

(***************************************************************************)
(* Vocabulary of the properties of the location parser.  The three         *)
(* grammars are stated on the whole string, with decimal digits only.      *)
(***************************************************************************)
IsDecimal(s) ==
    Len(s) >= 1 /\ \A k \in 1..Len(s) : s[k] \in {DigitChar[d] : d \in 1..10}

\* positions <<p, q, r>> of the first C, the hyphen and the second C
CharRangeSplits(s) ==
    IF Len(s) = 0 \/ s[1] \notin {"L", "l"} THEN {}
    ELSE UNION {UNION {{<<p, q, r>> :
                          r \in {x \in (q + 3)..Len(s) :
                                    /\ IsDecimal(SubSeq(s, q + 2, x - 1))
                                    /\ s[x] \in {"C", "c"}
                                    /\ IsDecimal(SubSeq(s, x + 1, Len(s)))}} :
                      q \in {x \in (p + 2)..(Len(s) - 1) :
                                /\ IsDecimal(SubSeq(s, p + 1, x - 1))
                                /\ s[x] = "-"
                                /\ s[x + 1] \in {"L", "l"}}} :
                  p \in {x \in 3..Len(s) :
                            /\ IsDecimal(SubSeq(s, 2, x - 1))
                            /\ s[x] \in {"C", "c"}}}

IsCharRange(s) == CharRangeSplits(s) # {}

\* the four integers <a, b, c, d> of L<a>C<b>-L<c>C<d>
CharRangeInts(s) ==
    LET t == CHOOSE x \in CharRangeSplits(s) : TRUE
    IN  <<DecVal(SubSeq(s, 2, t[1] - 1)),
          DecVal(SubSeq(s, t[1] + 1, t[2] - 1)),
          DecVal(SubSeq(s, t[2] + 2, t[3] - 1)),
          DecVal(SubSeq(s, t[3] + 1, Len(s)))>>

LineRangeSplits(s) ==
    {p \in 1..Len(s) :
       /\ s[p] = "-"
       /\ IsDecimal(SubSeq(s, 1, p - 1))
       /\ IsDecimal(SubSeq(s, p + 1, Len(s)))}

IsLineRange(s) == LineRangeSplits(s) # {}

\* the two integers <s, e> of <s>-<e>
LineRangeInts(s) ==
    LET p == CHOOSE x \in LineRangeSplits(s) : TRUE
    IN  <<DecVal(SubSeq(s, 1, p - 1)), DecVal(SubSeq(s, p + 1, Len(s)))>>

\* this step is an iteration of the token loop on a token that has a '#':
\* it parses the location part l_raw'
ParseStep ==
    /\ rpc = "loop" /\ taken < Len(inline_comment)
    /\ \E k \in 1..Len(inline_comment[taken + 1][1]) :
           inline_comment[taken + 1][1][k] = "#"
    /\ (taken' # taken \/ rpc' # rpc)

\* the step built one comment, with line ln and range rng, and goes on
Parsed(ln, rng) ==
    /\ taken' = taken + 1 /\ rpc' = "loop" /\ exit_code' = None
    /\ line' = Some(ln)
    /\ comment_range' = rng
    /\ f' \in DOMAIN comments'
    /\ LET old == IF f' \in DOMAIN comments THEN comments[f'] ELSE <<>>
           new == comments'[f']
       IN  /\ Len(new) = Len(old) + 1
           /\ SubSeq(new, 1, Len(old)) = old
           /\ new[Len(new)].line = Some(ln)
           /\ new[Len(new)].range = rng
           /\ new[Len(new)].message = Some(inline_comment[taken + 1][2])
           /\ ("range" \in DOMAIN Dump(new[Len(new)])) = (rng # None)
    /\ \A x \in DOMAIN comments' \ {f'} :
           x \in DOMAIN comments /\ comments'[x] = comments[x]

\* the step failed: status 1, no comment built, the loop is left
Rejected ==
    /\ rpc' = "done" /\ exit_code' = Some(1)
    /\ taken' = taken
    /\ sent' = sent
    /\ \A x \in DOMAIN comments' :
           comments'[x] = IF x \in DOMAIN comments THEN comments[x] ELSE <<>>

\* the last iteration of the token loop parsed l_raw
LastParsed == taken >= 1 /\ rpc = "loop" /\ f \in DOMAIN comments

(***************************************************************************)
(* C7.  A location part L<a>C<b>-L<c>C<d> (decimal integers, L and C in    *)
(* either case) parses to line c with the range {start_line a,             *)
(* start_character b, end_line c, end_character d}; it is never given the  *)
(* reading of the line-range or the single-line grammar.                   *)
(***************************************************************************)
C7_Step ==
    (ParseStep /\ IsCharRange(l_raw'))
    => LET v == CharRangeInts(l_raw')
       IN  Parsed(v[3], Some([start_line |-> v[1], start_character |-> v[2],
                              end_line |-> v[3], end_character |-> v[4]]))

C7_CharRange == [][C7_Step]_vars

C7_Witness ==
    /\ LastParsed
    /\ IsCharRange(l_raw)
    /\ l_raw[1] = "l"
    /\ comment_range # None
    /\ comment_range[1].start_line # comment_range[1].end_line
    /\ comment_range[1].start_character # comment_range[1].end_character
    /\ line = Some(comment_range[1].end_line)

(***************************************************************************)
(* C8.  A location part <s>-<e> (decimal integers) parses to line e with   *)
(* the range {start_line s, start_character 0, end_line e,                 *)
(* end_character 10000}.                                                   *)
(***************************************************************************)
C8_Step ==
    (ParseStep /\ IsLineRange(l_raw'))
    => LET v == LineRangeInts(l_raw')
       IN  Parsed(v[2], Some([start_line |-> v[1], start_character |-> 0,
                              end_line |-> v[2], end_character |-> 10000]))

C8_LineRange == [][C8_Step]_vars

C8_Witness ==
    /\ LastParsed
    /\ IsLineRange(l_raw)
    /\ comment_range # None
    /\ comment_range[1].start_line # comment_range[1].end_line
    /\ comment_range[1].end_character = 10000
    /\ line = Some(comment_range[1].end_line)

(***************************************************************************)
(* C9.  A location part that is a decimal integer n parses to line n with  *)
(* no range: the comment is submitted without a range.                     *)
(***************************************************************************)
C9_Step ==
    (ParseStep /\ IsDecimal(l_raw')) => Parsed(DecVal(l_raw'), None)

C9_SingleLine == [][C9_Step]_vars

C9_Witness ==
    /\ LastParsed
    /\ IsDecimal(l_raw)
    /\ line # None /\ line[1] >= 10
    /\ comment_range = None
    /\ comments[f][Len(comments[f])].range = None

(***************************************************************************)
(* C10.  Parsing is strict: a location part that is not, as a whole,       *)
(* digits, digits-digits or LdigitsCdigits-LdigitsCdigits fails with the   *)
(* invalid-location error (status 1) and yields no line or range.          *)
(***************************************************************************)
C10_Step ==
    (/\ ParseStep
     /\ ~IsDecimal(l_raw') /\ ~IsLineRange(l_raw') /\ ~IsCharRange(l_raw'))
    => Rejected

C10_Strict == [][C10_Step]_vars


(***************************************************************************)
(* Vocabulary of the properties of the token loop.                         *)
(***************************************************************************)
HasHash(t) == \E k \in 1..Len(t) : t[k] = "#"

LastHash(t) == CHOOSE k \in 1..Len(t) :
                   t[k] = "#" /\ \A j \in (k + 1)..Len(t) : t[j] # "#"

\* the file part of a token: what comes before its last '#'
TokenFile(t) == SubSeq(t, 1, LastHash(t) - 1)

\* the tokens the loop has been through
TakenTokens == SubSeq(inline_comment, 1, taken)

\* the messages, in token order, of the tokens of tokens that name file x
MessagesFor(tokens, x) ==
    LET own == SelectSeq(tokens, LAMBDA t : TokenFile(t[1]) = x)
    IN  [k \in 1..Len(own) |-> own[k][2]]

RECURSIVE SumLens(_, _)
SumLens(cs, keys) ==
    IF keys = {} THEN 0
    ELSE LET x == CHOOSE y \in keys : TRUE
         IN  Len(cs[x]) + SumLens(cs, keys \ {x})

(***************************************************************************)
(* C11.  An iteration of the token loop on a token without '#' fails with  *)
(* status 1 and sends nothing; it parses no location and builds no         *)
(* comment: the file part, the location part, the line, the range and the  *)
(* comments are as they were.                                              *)
(***************************************************************************)
C11_Step ==
    (/\ rpc = "loop" /\ taken < Len(inline_comment)
     /\ ~HasHash(inline_comment[taken + 1][1])
     /\ (taken' # taken \/ rpc' # rpc))
    => /\ Rejected
       /\ comments' = comments
       /\ f' = f /\ l_raw' = l_raw
       /\ line' = line /\ comment_range' = comment_range

C12_Step ==
    ParseStep
    => /\ f' \o <<"#">> \o l_raw' = inline_comment[taken + 1][1]
       /\ ~HasHash(l_raw')

C12_LastHash == [][C12_Step]_vars

C12_Witness ==
    /\ LastParsed
    /\ HasHash(f)
    /\ l_raw = <<"7">>
    /\ line = Some(7)
    /\ Len(comments[f]) >= 1

(***************************************************************************)
(* C13.  While every token so far was valid, the comments mapping has one  *)
(* key for each distinct file part of the tokens taken, the list of a key  *)
(* holds the comments of that file's tokens in token order, each with the  *)
(* message of its token, and the lists hold as many comments as tokens     *)
(* were taken; the request that is sent carries that mapping.              *)
(***************************************************************************)
C13_Grouping ==
    /\ rpc = "loop"
       => /\ DOMAIN comments = {TokenFile(TakenTokens[k][1]) : k \in 1..taken}
          /\ \A x \in DOMAIN comments :
                 [k \in 1..Len(comments[x]) |-> comments[x][k].message[1]]
                     = MessagesFor(TakenTokens, x)
          /\ SumLens(comments, DOMAIN comments) = taken
    /\ (Len(sent) = 1 /\ Len(inline_comment) > 0)
       => /\ "comments" \in DOMAIN sent[1]
          /\ DOMAIN sent[1].comments
                 = {TokenFile(inline_comment[k][1]) : k \in 1..Len(inline_comment)}
          /\ \A x \in DOMAIN sent[1].comments :
                 [k \in 1..Len(sent[1].comments[x]) |->
                     sent[1].comments[x][k].message]
                     = MessagesFor(inline_comment, x)
          /\ SumLens(sent[1].comments, DOMAIN sent[1].comments)
                 = Len(inline_comment)

C13_Witness ==
    /\ Len(sent) = 1
    /\ Len(inline_comment) = 2
    /\ "comments" \in DOMAIN sent[1]
    /\ \E x \in DOMAIN sent[1].comments :
           /\ Len(sent[1].comments[x]) = 2
           /\ sent[1].comments[x][1].message = "m2"
           /\ sent[1].comments[x][2].message = "m1"
           /\ sent[1].comments[x][1].line # sent[1].comments[x][2].line

(***************************************************************************)
(* C14.  Every comment built with a range has the line of the end of its   *)
(* range: range.end_line = line, in the comments mapping and in the        *)
(* request that is sent.                                                   *)
(***************************************************************************)
C14_EndLine ==
    /\ \A x \in DOMAIN comments : \A k \in 1..Len(comments[x]) :
           comments[x][k].range # None
           => comments[x][k].range[1].end_line = comments[x][k].line[1]
    /\ \A r \in 1..Len(sent) :
           "comments" \in DOMAIN sent[r]
           => \A x \in DOMAIN sent[r].comments :
                  \A k \in 1..Len(sent[r].comments[x]) :
                      "range" \in DOMAIN sent[r].comments[x][k]
                      => sent[r].comments[x][k].range.end_line
                             = sent[r].comments[x][k].line

C14_Witness ==
    /\ Len(sent) = 1
    /\ "comments" \in DOMAIN sent[1]
    /\ \E x \in DOMAIN sent[1].comments :
           /\ "range" \in DOMAIN sent[1].comments[x][1]
           /\ sent[1].comments[x][1].range.start_character = 10
           /\ sent[1].comments[x][1].range.start_line = 0
           /\ sent[1].comments[x][1].range.end_line = 1
           /\ sent[1].comments[x][1].line = 1


(***************************************************************************)
(* C20.  The review command sends a request only if a message (-m or -f),  *)
(* a label score or an inline comment is given; a label score, 0 included, *)
(* passes the validation; when nothing is given the command leaves with    *)
(* status 1 and sends nothing.  The request that is sent has the labels    *)
(* only when there is a label, and the comments only when there is a       *)
(* comment.                                                                *)
(***************************************************************************)
MessageGiven == message # None \/ file_text # None

LabelGiven == code_review # None \/ verified # None

NothingGiven == ~MessageGiven /\ ~LabelGiven /\ Len(inline_comment) = 0

C20_Step ==
    /\ sent' # sent
       => /\ ~NothingGiven
          /\ Len(sent') = Len(sent) + 1
          /\ LET payload == sent'[Len(sent')]
             IN  /\ "labels" \in DOMAIN payload
                    => /\ LabelGiven
                       /\ DOMAIN payload.labels # {}
                 /\ "comments" \in DOMAIN payload
                    => /\ Len(inline_comment) > 0
                       /\ DOMAIN payload.comments # {}
                       /\ \A x \in DOMAIN payload.comments :
                              Len(payload.comments[x]) > 0
    /\ (rpc = "start" /\ rpc' # rpc)
       => /\ NothingGiven => (rpc' = "done" /\ exit_code' = Some(1))
          /\ LabelGiven => (rpc' = "loop" /\ exit_code' = None)
          /\ sent' = sent

C20_Validation == [][C20_Step]_vars

\* a request sent for a Code-Review score of 0 and nothing else
C20_Witness ==
    /\ message = None /\ file_text = None /\ verified = None
    /\ Len(inline_comment) = 0
    /\ code_review = Some(<<"0">>)
    /\ Len(sent) = 1
    /\ DOMAIN sent[1] = {"labels"}
    /\ sent[1].labels["Code-Review"] = 0


(***************************************************************************)
(* C16.  Every option of the list passed to list_changes or get_change is  *)
(* an o parameter of the query of the request the call issues.             *)
(***************************************************************************)
C16_AllOptions ==
    (api_call # None /\ api_call[1].options # None /\ Len(requests) = 1)
    => \A k \in 1..Len(api_call[1].options[1]) :
           <<"o", api_call[1].options[1][k]>> \in QueryPairs(requests[1].params)


(***************************************************************************)
(* Vocabulary of the properties of the view command.  The items of a       *)
(* --parts value are its comma-separated fields, trimmed, the empty ones   *)
(* left out; the spellings of the parts are listed one by one.             *)
(***************************************************************************)
CommaAt(s) == {k \in 1..Len(s) : s[k] = ","}

NthComma(s, n) ==
    CHOOSE k \in CommaAt(s) : Cardinality({c \in CommaAt(s) : c < k}) = n - 1

Field(s, n) ==
    SubSeq(s,
           IF n = 1 THEN 1 ELSE NthComma(s, n - 1) + 1,
           IF n = Cardinality(CommaAt(s)) + 1 THEN Len(s) ELSE NthComma(s, n) - 1)

Blank(c) == c \in {" ", "\t", "\n", "\r"}

Trimmed(x) ==
    LET inked == {k \in 1..Len(x) : ~Blank(x[k])}
    IN  IF inked = {} THEN <<>>
        ELSE SubSeq(x,
                    CHOOSE a \in inked : \A b \in inked : a <= b,
                    CHOOSE a \in inked : \A b \in inked : a >= b)

Items(s) ==
    SelectSeq([n \in 1..(Cardinality(CommaAt(s)) + 1) |-> Trimmed(Field(s, n))],
              LAMBDA x : Len(x) > 0)

PartSpellings ==
    {<<<<"m">>, PartMetadata>>, <<PartMetadata, PartMetadata>>,
     <<<<"f">>, PartFiles>>, <<PartFiles, PartFiles>>,
     <<<<"d">>, PartDiff>>, <<PartDiff, PartDiff>>,
     <<<<"m", "s", "g">>, PartMessages>>, <<PartMessages, PartMessages>>,
     <<<<"c">>, PartComments>>, <<PartComments, PartComments>>}

Known(item) == \E sp \in PartSpellings : sp[1] = item

FullName(item) == (CHOOSE sp \in PartSpellings : sp[1] = item)[2]

\* part is one of the parts the run shows
Selected(part) ==
    parts_list # None /\ \E k \in 1..Len(parts_list[1]) : parts_list[1][k] = part

IsDetail(r) == r.endpoint = "/changes/{change_id}"
IsFileList(r) == r.endpoint = "/changes/{change_id}/revisions/current/files/"
IsFileDiff(r) ==
    r.endpoint = "/changes/{change_id}/revisions/current/files/{path}/diff"
IsComments(r) == r.endpoint = "/changes/{change_id}/comments"

(***************************************************************************)
(* C17.  A --parts value that is "all" gives the five parts; any other     *)
(* value gives, in input order, the full names of its items when every     *)
(* item is a full name or an abbreviation; otherwise the ValueError names  *)
(* the first item that is neither, and view leaves with status 1 having    *)
(* sent no request.                                                        *)
(***************************************************************************)
C17_Step ==
    /\ (/\ vpc = "start" /\ vpc' # vpc
        /\ parts_option # None /\ Len(parts_option[1]) > 0)
       => LET s == parts_option[1]
              items == Items(s)
              unknown == {n \in 1..Len(items) : ~Known(items[n])}
          IN  IF s = <<"a", "l", "l">>
              THEN /\ parts_list' = Some(<<PartMetadata, PartFiles, PartDiff,
                                           PartMessages, PartComments>>)
                   /\ error' = None /\ vpc' = "detail" /\ view_exit' = None
              ELSE IF unknown = {}
              THEN /\ parts_list' = Some([n \in 1..Len(items) |->
                                            FullName(items[n])])
                   /\ error' = None /\ vpc' = "detail" /\ view_exit' = None
              ELSE /\ error' = Some(items[CHOOSE n \in unknown :
                                            \A o \in unknown : n <= o])
                   /\ parts_list' = None
                   /\ vpc' = "done" /\ view_exit' = Some(1)
    /\ error' # None
       => (requests' = <<>> /\ vpc' = "done" /\ view_exit' = Some(1))

C17_Parts == [][C17_Step]_vars

C17_Witness ==
    /\ parts_option = Some(<<"m", "s", "g", ",", "a", "l", "l">>)
    /\ error = Some(<<"a", "l", "l">>)
    /\ vpc = "done" /\ view_exit = Some(1)
    /\ requests = <<>>
    /\ output = None

(***************************************************************************)
(* C18.  A run of view without --parts requests neither the comments nor   *)
(* the diff of a file, and what it prints in the table format is among     *)
(* metadata, files and messages.                                           *)
(***************************************************************************)
C18_Default ==
    parts_option = None
    => /\ \A k \in 1..Len(requests) :
              ~IsComments(requests[k]) /\ ~IsFileDiff(requests[k])
       /\ (output # None /\ output_format = "table")
          => \A k \in 1..Len(output[1]) :
                 output[1][k] \in {"metadata", "files", "messages"}

(***************************************************************************)
(* C19.  Every request of a run of view is added at the end of the         *)
(* requests made; the change-detail request is the first request and only  *)
(* the first; a file-list request is made only if files or diff is shown,  *)
(* a per-file diff request only if diff is shown, the comments request     *)
(* only if comments is shown; with --parts m there is at most one request. *)
(* As stated: every run that ends has made the change-detail request.      *)
(* Amended: every run that ends with a valid --parts value has made it.    *)
(***************************************************************************)
C19_Order ==
    /\ requests' # requests
       => /\ Len(requests') = Len(requests) + 1
          /\ SubSeq(requests', 1, Len(requests)) = requests
          /\ LET r == requests'[Len(requests')]
             IN  /\ IsDetail(r) <=> Len(requests) = 0
                 /\ IsFileList(r) => (Selected(PartFiles) \/ Selected(PartDiff))
                 /\ IsFileDiff(r) => Selected(PartDiff)
                 /\ IsComments(r) => Selected(PartComments)
                 /\ IsDetail(r) \/ IsFileList(r) \/ IsFileDiff(r) \/ IsComments(r)
    /\ parts_option = Some(<<"m">>) => Len(requests') <= 1

C19_StepAlways ==
    /\ C19_Order
    /\ vpc' = "done" => (Len(requests') >= 1 /\ IsDetail(requests'[1]))

C19_Always == [][C19_StepAlways]_vars

C19_StepValid ==
    /\ C19_Order
    /\ (vpc' = "done" /\ error' = None)
       => (Len(requests') >= 1 /\ IsDetail(requests'[1]))

C19_ValidParts == [][C19_StepValid]_vars

C19_Witness ==
    /\ vpc = "done" /\ view_exit = Some(0)
    /\ ~Selected(PartFiles) /\ Selected(PartDiff) /\ Selected(PartComments)
    /\ Len(requests) = 6
    /\ IsDetail(requests[1])
    /\ IsFileList(requests[2]) /\ IsFileList(requests[3])
    /\ IsFileDiff(requests[4]) /\ IsFileDiff(requests[5])
    /\ requests[4].file_path # requests[5].file_path
    /\ IsComments(requests[6])


(***************************************************************************)
(* C15.  The converter is a pure function: any two calls that returned,    *)
(* whatever calls came between them, and that were given the same          *)
(* sections and the same context returned the same string; and at its      *)
(* return every call's sections are the sections it was given.             *)
(***************************************************************************)
\* the calls that have returned, in order
ReturnedCalls == IF pc = "done" THEN Append(calls, Returned) ELSE calls

C15_Pure ==
    /\ \A x \in 1..Len(ReturnedCalls), y \in 1..Len(ReturnedCalls) :
           (/\ ReturnedCalls[x].given = ReturnedCalls[y].given
            /\ ReturnedCalls[x].context = ReturnedCalls[y].context)
           => ReturnedCalls[x].returned = ReturnedCalls[y].returned
    /\ \A x \in 1..Len(ReturnedCalls) :
           ReturnedCalls[x].content = ReturnedCalls[x].given
    /\ pc = "loop" => content_sections = given

\* the same non-empty diff converted first and third, another one between
C15_Witness ==
    /\ pc = "done"
    /\ Len(calls) = 2
    /\ calls[1].given = given /\ calls[1].context = context
    /\ calls[2].given # given
    /\ Len(given) = 3
    /\ Len(calls[2].returned) > 0
    /\ calls[1].returned = result[1]


(***************************************************************************)
(* C22.  The treatment of a Context segment follows from the kinds of the  *)
(* segments at i-1 and i+1 alone, only Added, Removed and Replace being a  *)
(* change.  With no change on either side (Skip or Context neighbours, or  *)
(* the ends of the sequence) the segment is collapsed whole, or kept       *)
(* whole: one marker carrying its full length when the length exceeds 2N,  *)
(* all its lines otherwise.  A collapsed segment followed but not preceded *)
(* by a change (the first position included) has its one marker first; one *)
(* preceded but not followed by a change (the last position included) has  *)
(* its one marker last; one between two changes has one marker carrying    *)
(* L - 2N.  Position 0 has an end before it and the last position an end   *)
(* after it, so neither is taken as lying after, resp. before, a change.   *)
(***************************************************************************)
NeighbourKind(k) ==
    IF k < 1 \/ k > Len(content_sections) THEN "End"
    ELSE SegKind(content_sections[k])

ChangeKinds == {"Added", "Removed", "Replace"}

MarkersOf(out) == {k \in 1..Len(out) : OutKind(out[k]) = "CollapsedMarker"}

C22_Step ==
    (Iteration /\ SegKind(Seg) = "Context")
    => /\ Appends
       /\ LET L == Len(Seg.ab)
              N == context
              prev == NeighbourKind(i) \in ChangeKinds
              next == NeighbourKind(i + 2) \in ChangeKinds
          IN  /\ (~prev /\ ~next)
                 => IF L > 2 * N
                    THEN Len(Chunk) = 1 /\ IsMarker(Chunk[1], L)
                    ELSE IsRun(Chunk, "Context", Seg.ab)
              /\ (~prev /\ next /\ L > N)
                 => MarkersOf(Chunk) = {1} /\ IsMarker(Chunk[1], L - N)
              /\ (prev /\ ~next /\ L > N)
                 => /\ MarkersOf(Chunk) = {Len(Chunk)}
                    /\ IsMarker(Chunk[Len(Chunk)], L - N)
                    /\ Len(Chunk) = N + 1
              /\ (prev /\ next /\ L > 2 * N)
                 => /\ MarkersOf(Chunk) = {N + 1}
                    /\ IsMarker(Chunk[N + 1], L - 2 * N)

C22_Neighbours == [][C22_Step]_vars

\* a Context segment after a Skip and before another Context, collapsed whole
C22_Witness ==
    /\ i = 2 /\ Len(content_sections) = 3
    /\ context >= 1
    /\ SegKind(content_sections[1]) = "Skip"
    /\ SegKind(Done) = "Context"
    /\ SegKind(content_sections[3]) = "Context"
    /\ Len(Done.ab) > 2 * context
    /\ Len(lines) = 2
    /\ IsMarker(lines[2], Len(Done.ab))

(***************************************************************************)
(* C27.  Context lines are conserved, for N >= 0: what an iteration on a   *)
(* Context segment outputs is context lines and at most one marker; the    *)
(* number of lines output plus the count of the marker (0 without one) is  *)
(* the length of the segment; the lines output are lines of the segment,   *)
(* none of them twice; the marker carries a count >= 1.                    *)
(***************************************************************************)
MarkerCount(o) == DecVal(SubSeq(o, 2, Len(o) - 1))

C27_Step ==
    (Iteration /\ SegKind(Seg) = "Context")
    => /\ Appends
       /\ LET shown == {k \in 1..Len(Chunk) : OutKind(Chunk[k]) = "Context"}
              marks == MarkersOf(Chunk)
              hidden == IF marks = {} THEN 0
                        ELSE MarkerCount(Chunk[CHOOSE k \in marks : TRUE])
          IN  /\ shown \cup marks = 1..Len(Chunk)
              /\ Cardinality(marks) <= 1
              /\ Cardinality(shown) + hidden = Len(Seg.ab)
              /\ marks # {} => hidden >= 1
              /\ \A k \in shown :
                     \E j \in 1..Len(Seg.ab) : OutText(Chunk[k]) = Seg.ab[j]
              /\ \A k \in shown, j \in shown :
                     OutText(Chunk[k]) = OutText(Chunk[j]) => k = j

C27_Conserved == [][C27_Step]_vars


(***************************************************************************)
(* C28.  Inline comments are all or nothing.  An iteration of the token    *)
(* loop on an invalid token (one without '#', or one whose location part   *)
(* is none of the three forms the parser takes) leaves with status 1 and   *)
(* sends nothing, whatever was parsed or given before; a run that has an   *)
(* invalid token and has ended has status 1 and has sent nothing; and a    *)
(* request is sent only when the loop has been through every token, every  *)
(* token is valid and each has given one comment.                          *)
(***************************************************************************)
LocationOf(t) == SubSeq(t, LastHash(t) + 1, Len(t))

ValidLocation(s) ==
    \/ char_range_match(s) # None
    \/ /\ char_range_match(s) = None
       /\ "-" \in Chars(s)
       /\ Len(split(s)) = 2
       /\ int(split(s)[1]) # None
       /\ int(split(s)[2]) # None
    \/ /\ char_range_match(s) = None
       /\ "-" \notin Chars(s)
       /\ int(s) # None

ValidToken(t) == HasHash(t) /\ ValidLocation(LocationOf(t))

AllValid == \A k \in 1..Len(inline_comment) : ValidToken(inline_comment[k][1])

C28_Step ==
    /\ (/\ rpc = "loop" /\ taken < Len(inline_comment)
        /\ ~ValidToken(inline_comment[taken + 1][1])
        /\ (taken' # taken \/ rpc' # rpc))
       => Rejected
    /\ (rpc = "done" /\ ~AllValid) => (exit_code = Some(1) /\ sent = <<>>)
    /\ sent' # sent
       => /\ sent = <<>>
          /\ AllValid
          /\ taken = Len(inline_comment)
          /\ SumLens(comments, DOMAIN comments) = Len(inline_comment)

C28_AllOrNothing == [][C28_Step]_vars

\* a valid token, a message and a label, then a token whose location does
\* not parse: status 1 and nothing sent
C28_Witness ==
    /\ Len(inline_comment) = 2
    /\ ValidToken(inline_comment[1][1])
    /\ HasHash(inline_comment[2][1])
    /\ ~ValidToken(inline_comment[2][1])
    /\ MessageGiven /\ LabelGiven
    /\ taken = 1
    /\ SumLens(comments, DOMAIN comments) = 1
    /\ rpc = "done" /\ exit_code = Some(1) /\ sent = <<>>


(***************************************************************************)
(* C24.  In view, when diff is selected and the change has more than 1000  *)
(* inserted plus deleted lines, no per-file diff is requested and no       *)
(* second file list either, the diff part is switched off and is not       *)
(* printed, and every other part stays as selected: the comments are       *)
(* requested when selected, and the sections printed are those the         *)
(* selection and the data give.  At 1000 lines or fewer the step after the *)
(* file list asks for the diffs, and a run that ends well has them.        *)
(***************************************************************************)
Total == change[1].insertions + change[1].deletions

Printed(name) == output # None /\ \E k \in 1..Len(output[1]) : output[1][k] = name

FileListRequests == {k \in 1..Len(requests) : IsFileList(requests[k])}

EndedWell == vpc = "done" /\ view_exit = Some(0)

C24_Step ==
    /\ (change # None /\ Selected(PartDiff) /\ Total > 1000)
       => /\ \A k \in 1..Len(requests) : ~IsFileDiff(requests[k])
          /\ Cardinality(FileListRequests) <= 1
          /\ diffs_data = None
          /\ ~Printed("diff") /\ ~Printed("diffs")
          /\ vpc \in {"comments", "output", "done"} => ~show_parts[PartDiff]
          /\ \A part \in {PartMetadata, PartFiles, PartMessages, PartComments} :
                 show_parts[part] = Selected(part)
          /\ EndedWell
             => /\ Selected(PartComments)
                   <=> \E k \in 1..Len(requests) : IsComments(requests[k])
                /\ Cardinality(FileListRequests) = 1
                /\ output_format = "table"
                   => /\ Printed("metadata") <=> Selected(PartMetadata)
                      /\ Printed("files")
                         <=> (Selected(PartFiles) /\ Truthy(files_data))
                      /\ Printed("comments")
                         <=> (Selected(PartComments) /\ Truthy(comments_data))
                      /\ Printed("messages")
                         <=> (Selected(PartMessages) /\ change[1].messages > 0)
    /\ (vpc = "diff" /\ vpc' # vpc /\ Selected(PartDiff))
       => IF Total > 1000
          THEN /\ requests' = requests /\ vpc' = "comments"
               /\ ~show_parts'[PartDiff]
          ELSE /\ Len(requests') = Len(requests) + 1
               /\ IsFileList(requests'[Len(requests')])
               /\ show_parts' = show_parts
    /\ (change # None /\ Selected(PartDiff) /\ Total <= 1000 /\ EndedWell)
       => /\ diffs_data # None
          /\ Cardinality(FileListRequests) = 2
          /\ show_parts[PartDiff]

C24_TooLarge == [][C24_Step]_vars

\* 1001 lines: detail, file list and comments requested, comments printed
C24_Witness ==
    /\ EndedWell /\ output_format = "table"
    /\ Selected(PartDiff) /\ Selected(PartComments) /\ ~Selected(PartFiles)
    /\ Total = 1001
    /\ ~show_parts[PartDiff]
    /\ Len(requests) = 3
    /\ IsDetail(requests[1]) /\ IsFileList(requests[2]) /\ IsComments(requests[3])
    /\ Printed("comments") /\ ~Printed("diff")


(***************************************************************************)
(* Vocabulary of the properties of the client's answers.  The JSON texts   *)
(* among the bodies are listed, without their blanks.                      *)
(***************************************************************************)
Squeezed(s) == SelectSeq(s, LAMBDA c : ~Blank(c))

JsonDocs == {<<"[", "]">>, <<"{", "}">>, <<"[", "1", ",", "1", "0", "]">>}

\* the body once one prefix )]}' and its newline are taken off its start
Stripped(text) ==
    IF Len(text) >= 5 /\ text[1] = ")" /\ text[2] = "]" /\ text[3] = "}"
       /\ text[4] = "'" /\ text[5] = "\n"
    THEN [k \in 1..(Len(text) - 5) |-> text[k + 5]]
    ELSE text

\* resp is an answer with a status below 400 whose body is empty or JSON
Answered(resp) ==
    /\ resp # None
    /\ resp[1].status_code < 400
    /\ LET body == Stripped(resp[1].text)
       IN  Squeezed(body) = <<>> \/ Squeezed(body) \in JsonDocs

(***************************************************************************)
(* C23.  A request of GerritClient ends in exactly one outcome, an         *)
(* exception or data, never both and never neither: 401 gives              *)
(* AuthenticationError, 404 NotFoundError, any other status of 400 or more *)
(* an ApiError that carries the status, a request that got no response an  *)
(* ApiError; only for a status below 400 is the body read: one prefix is   *)
(* taken off, an empty body gives the empty object, a JSON body its value, *)
(* any other body an ApiError.  An answer with an error status is never    *)
(* returned as data.                                                       *)
(***************************************************************************)
C23_Outcome ==
    api_result # None
    => /\ response # None
       /\ LET resp == response[1]
              out == api_result[1]
          IN  /\ (out.raised = None) # (out.data = None)
              /\ out.raised \in {None, Some("AuthenticationError"),
                                 Some("NotFoundError"), Some("ApiError")}
              /\ IF resp = None
                 THEN out.raised = Some("ApiError") /\ out.status_code = None
                 ELSE LET code == resp[1].status_code
                          body == Stripped(resp[1].text)
                      IN  /\ code = 401
                             => out.raised = Some("AuthenticationError")
                          /\ code = 404 => out.raised = Some("NotFoundError")
                          /\ (code >= 400 /\ code \notin {401, 404})
                             => /\ out.raised = Some("ApiError")
                                /\ out.status_code = Some(code)
                          /\ code < 400
                             => /\ out.status_code = None
                                /\ IF Squeezed(body) = <<>>
                                   THEN out.data = Some(<<"{", "}">>)
                                   ELSE IF Squeezed(body) \in JsonDocs
                                   THEN out.data = Some(Squeezed(body))
                                   ELSE out.raised = Some("ApiError")
              /\ out.data # None <=> Answered(resp)

\* a 500 whose body is JSON behind the prefix: an ApiError that carries 500
C23_Witness ==
    /\ api_result # None /\ response # None /\ response[1] # None
    /\ response[1][1].status_code = 500
    /\ Answered(Some([status_code |-> 200, text |-> response[1][1].text]))
    /\ Stripped(response[1][1].text) # response[1][1].text
    /\ api_result[1].raised = Some("ApiError")
    /\ api_result[1].status_code = Some(500)
    /\ api_result[1].data = None
    /\ Len(requests) = 1

(***************************************************************************)
(* C25.  An iteration of the loop of get_all_diffs on /COMMIT_MSG or       *)
(* /MERGE_LIST makes no request and adds no key; on any other file it      *)
(* makes one diff request for that file and adds the file as a key exactly *)
(* when the request is answered; answered or not, the loop goes on with    *)
(* the next file.  The loop is left only when every file was taken, and    *)
(* what it returns are the keys gathered.                                  *)
(***************************************************************************)
SpecialFiles == {"/COMMIT_MSG", "/MERGE_LIST"}

C25_Step ==
    /\ (/\ vpc = "diffs" /\ fetched < Len(files)
        /\ (fetched' # fetched \/ vpc' # vpc))
       => LET fp == files[fetched + 1]
          IN  /\ fetched' = fetched + 1
              /\ vpc' = "diffs" /\ view_exit' = None /\ files' = files
              /\ IF fp \in SpecialFiles
                 THEN requests' = requests /\ diffs' = diffs
                 ELSE /\ Len(requests') = Len(requests) + 1
                      /\ IsFileDiff(requests'[Len(requests')])
                      /\ requests'[Len(requests')].file_path = Some(fp)
                      /\ response' # None
                      /\ diffs' = IF Answered(response'[1])
                                  THEN Append(diffs, fp) ELSE diffs
    /\ (vpc = "diffs" /\ vpc' # vpc)
       => /\ fetched = Len(files)
          /\ vpc' = "comments"
          /\ diffs_data' = Some(diffs)
          /\ requests' = requests
    /\ \A k \in 1..Len(diffs) :
           /\ diffs[k] \notin SpecialFiles
           /\ \E j \in 1..Len(files) : files[j] = diffs[k]
    /\ \A k \in 1..Len(requests) :
           IsFileDiff(requests[k]) => requests[k].file_path[1] \notin SpecialFiles

C25_Keys == [][C25_Step]_vars

\* the request for a.py failed, /MERGE_LIST was passed over, b.py has a diff
C25_Witness ==
    /\ vpc = "comments"
    /\ files = <<"a.py", "/MERGE_LIST", "b.py">>
    /\ diffs_data = Some(<<"b.py">>)
    /\ Cardinality({k \in 1..Len(requests) : IsFileDiff(requests[k])}) = 2
    /\ \E k \in 1..Len(requests) :
           IsFileDiff(requests[k]) /\ requests[k].file_path = Some("a.py")


(***************************************************************************)
(* Vocabulary of the properties of the checkout command.                   *)
(***************************************************************************)
Ops == {steps[k].op : k \in 1..Len(steps)}

\* the steps of checkout named op
StepsOf(op) == {k \in 1..Len(steps) : steps[k].op = op}

Succeeded(op) == \E k \in StepsOf(op) : steps[k].ok

\* the branch the run is to create is a local branch
TargetExists == branch_name # None /\ branch_name[1] \in branches

(***************************************************************************)
(* C21.  A step of checkout takes a branch away only when --force is       *)
(* given, and then only the target branch, and only when HEAD is not on    *)
(* it.  When the target branch exists and --force is not given, or HEAD is *)
(* on it, the branch step ends the run with status 1: no branch goes or    *)
(* comes, HEAD stays, nothing is stashed, and no stash, fetch or checkout  *)
(* was called.                                                             *)
(***************************************************************************)
C21_Step ==
    /\ (branches \ branches') # {}
       => /\ force
          /\ branches \ branches' = {branch_name[1]}
          /\ HEAD # branch_name
          /\ branches' \subseteq branches
    /\ (/\ cpc = "branch" /\ cpc' # cpc
        /\ TargetExists
        /\ (~force \/ HEAD = branch_name))
       => /\ cpc' = "done" /\ checkout_exit' = Some(1)
          /\ branches' = branches /\ HEAD' = HEAD /\ stashed' = stashed
          /\ stashed = 0
          /\ \A k \in 1..Len(steps') :
                 steps'[k].op \notin {"delete_branch", "stash_changes",
                                      "fetch_change_ref", "checkout_fetch_head",
                                      "checkout_branch"}

C21_Branches == [][C21_Step]_vars

\* --force on the branch HEAD is on: status 1 and the branch is still there
C21_Witness ==
    /\ cpc = "done" /\ checkout_exit = Some(1)
    /\ force
    /\ TargetExists /\ HEAD = branch_name
    /\ Len(steps) >= 1 /\ steps[Len(steps)].op = "branch_exists"

(***************************************************************************)
(* C26.  The ref of the run is refs/changes/<NN>/<number>/<patch set>: NN  *)
(* is two digits whose value is the change number modulo 100, <number> is  *)
(* the change number, <patch set> the patch set number of the current      *)
(* revision; and that ref is what the fetch is called with.                *)
(***************************************************************************)
SlashAt(s) == {k \in 1..Len(s) : s[k] = "/"}

NthSlash(s, n) ==
    CHOOSE k \in SlashAt(s) : Cardinality({c \in SlashAt(s) : c < k}) = n - 1

\* the n-th of the pieces of s between its slashes
Component(s, n) ==
    SubSeq(s,
           IF n = 1 THEN 1 ELSE NthSlash(s, n - 1) + 1,
           IF n = Cardinality(SlashAt(s)) + 1 THEN Len(s)
           ELSE NthSlash(s, n) - 1)

C26_Ref ==
    /\ ref_spec # None
       => LET ref == ref_spec[1]
          IN  /\ Cardinality(SlashAt(ref)) = 4
              /\ Component(ref, 1) = <<"r", "e", "f", "s">>
              /\ Component(ref, 2) = <<"c", "h", "a", "n", "g", "e", "s">>
              /\ Len(Component(ref, 3)) = 2
              /\ IsDecimal(Component(ref, 3))
              /\ DecVal(Component(ref, 3)) = change_info[1].number % 100
              /\ Component(ref, 4) = Str(change_info[1].number)
              /\ IsDecimal(Component(ref, 5))
              /\ Some(DecVal(Component(ref, 5))) = change_info[1].patch_set
    /\ \A k \in StepsOf("fetch_change_ref") :
           ref_spec # None /\ steps[k].arg = ref_spec[1]

(***************************************************************************)
(* C29.  The calls of a run of checkout come in the order: git-repository  *)
(* check, change-info request, (question about the remote,) current-       *)
(* revision check, branch-existence check, (deletion,) working-directory   *)
(* check, (question, stash,) fetch, checkout of FETCH_HEAD, creation of    *)
(* the branch; none comes after a call that failed or after a cancel; the  *)
(* fetch comes only after the checks before it passed, the checkout of     *)
(* FETCH_HEAD only after the fetch succeeded, the creation only after      *)
(* both; a run that was cancelled ends with status 0 and has not fetched;  *)
(* with --no-checkout nothing is stashed, checked out or created.          *)
(***************************************************************************)
Rank(op) ==
    CASE op = "check_git_repository" -> 1
      [] op = "get_change" -> 2
      [] op = "confirm" -> 3
      [] op = "current_revision" -> 4
      [] op = "branch_exists" -> 5
      [] op = "delete_branch" -> 6
      [] op = "check_working_directory_clean" -> 7
      [] op = "prompt" -> 8
      [] op = "stash_changes" -> 9
      [] op = "fetch_change_ref" -> 10
      [] op = "checkout_fetch_head" -> 11
      [] op = "checkout_branch" -> 12

\* the call failed, for the calls that can fail
Failed(s) ==
    /\ s.op \in {"check_git_repository", "get_change", "current_revision",
                 "delete_branch", "stash_changes", "fetch_change_ref",
                 "checkout_fetch_head", "checkout_branch"}
    /\ ~s.ok

\* the user said no to the question, or chose to cancel
Cancel(s) ==
    \/ s.op = "confirm" /\ s.arg = <<"no">>
    \/ s.op = "prompt" /\ s.arg = <<"2">>

C29_Step ==
    /\ \A j \in 1..Len(steps), k \in 1..Len(steps) :
           j < k => /\ Rank(steps[j].op) < Rank(steps[k].op)
                    /\ ~Failed(steps[j])
                    /\ ~Cancel(steps[j])
    /\ requests' # requests
       => /\ Len(steps) = 1 /\ steps[1].op = "check_git_repository"
          /\ steps[1].ok
          /\ requests = <<>>
    /\ "current_revision" \in Ops => Succeeded("get_change")
    /\ "branch_exists" \in Ops => Succeeded("current_revision")
    /\ "check_working_directory_clean" \in Ops => "branch_exists" \in Ops
    /\ "stash_changes" \in Ops => "check_working_directory_clean" \in Ops
    /\ "fetch_change_ref" \in Ops
       => /\ Succeeded("check_git_repository") /\ Succeeded("get_change")
          /\ Succeeded("current_revision") /\ "branch_exists" \in Ops
          /\ ~no_checkout => "check_working_directory_clean" \in Ops
    /\ "checkout_fetch_head" \in Ops => Succeeded("fetch_change_ref")
    /\ "checkout_branch" \in Ops
       => Succeeded("fetch_change_ref") /\ Succeeded("checkout_fetch_head")
    /\ stashed' # stashed
       => /\ stashed' = stashed + 1
          /\ "fetch_change_ref" \notin Ops
          /\ steps'[Len(steps')].op = "stash_changes"
    /\ (branches' \ branches) # {}
       => /\ Succeeded("fetch_change_ref") /\ Succeeded("checkout_fetch_head")
          /\ branches' \ branches = {branch_name[1]}
          /\ steps'[Len(steps')].op = "checkout_branch"
    /\ (Len(steps) >= 1 /\ Cancel(steps[Len(steps)]))
       => /\ cpc = "done" /\ checkout_exit = Some(0)
          /\ "fetch_change_ref" \notin Ops
    /\ (cpc = "done" /\ checkout_exit = Some(0))
       => \/ Cancel(steps[Len(steps)])
          \/ Succeeded("fetch_change_ref")
    /\ no_checkout
       => /\ Ops \cap {"check_working_directory_clean", "prompt",
                       "stash_changes", "checkout_fetch_head",
                       "checkout_branch"} = {}
          /\ stashed = 0
          /\ HEAD' = HEAD
          /\ branches' \subseteq branches

C29_Order == [][C29_Step]_vars

\* a run that stashed, fetched, checked FETCH_HEAD out and made the branch
C29_Witness ==
    /\ cpc = "done" /\ checkout_exit = Some(0)
    /\ [k \in 1..Len(steps) |-> steps[k].op]
       = <<"check_git_repository", "get_change", "current_revision",
           "branch_exists", "check_working_directory_clean", "stash_changes",
           "fetch_change_ref", "checkout_fetch_head", "checkout_branch">>
    /\ stashed = 1
    /\ HEAD = branch_name /\ TargetExists


(***************************************************************************)
(* C30.  For a width of at least 5, shorten_path returns a string, no      *)
(* longer than the width; the path itself when the path fits; otherwise a  *)
(* string that ends with a suffix of the last component of the path, a     *)
(* suffix that is not empty when that component is not.                    *)
(***************************************************************************)
LastComponent(s) ==
    LET slashes == {k \in 1..Len(s) : s[k] = "/"}
        from == IF slashes = {} THEN 1
                ELSE (CHOOSE k \in slashes : \A j \in slashes : j <= k) + 1
    IN  SubSeq(s, from, Len(s))

EndsWith(s, t) ==
    Len(t) <= Len(s) /\ SubSeq(s, Len(s) - Len(t) + 1, Len(s)) = t

C30_Shortened ==
    (shortened # None /\ max_length >= 5)
    => /\ shortened[1].raised = None
       /\ shortened[1].value # None
       /\ LET value == shortened[1].value[1]
              last == LastComponent(path)
          IN  /\ Len(value) <= max_length
              /\ Len(path) <= max_length => value = path
              /\ Len(path) > max_length
                 => \E k \in 1..(Len(last) + 1) :
                        /\ EndsWith(value, SubSeq(last, k, Len(last)))
                        /\ Len(last) > 0 => k <= Len(last)

====
